---- MODULE Spec2Model ----
\* Model of the peek-rs conversation engine (src/ai/src/lib.rs): the LLM
\* session with its turn history and tool registry, the request it builds,
\* and the consumption of the response stream; of the PostgreSQL database
\* (src/db/src/postgres.rs): query results and schema; and of the session
\* loop of the ui program (src/ui/src/main.rs), which drives the two.
\*
\* Strings that the code concatenates, serializes or parses are sequences of
\* one-character strings (<<"h","i">> is "hi"); names that are only compared
\* are TLA+ strings.
EXTENDS Integers, Sequences, FiniteSets, TLC

\* ------------------------------------------------------------------ bounds

\* Turns in the history plus registry operations performed, over a session.
MaxSize == 4
\* Responses the collaborator puts on one stream.
MaxChunks == 2
\* Turns in the history plus registry operations, over a run of the ui program.
MaxLoopSize == 8

\* ------------------------------------------------------------- characters

\* Option<T>: None is the empty sequence, Some(x) the sequence of x alone.
None == <<>>
Some(x) == << x >>

DQ == "\""
BS == "\\"
NL == "\n"

\* Byte order of the characters the model uses (Rust compares str by bytes).
Alphabet ==
    << NL, " ", DQ, ",", "1", "2", ":", BS, "_",
       "a", "b", "c", "d", "e", "h", "i", "k", "l", "n", "o", "q", "r",
       "s", "t", "u", "y", "{", "}" >>

Code(c) == CHOOSE i \in DOMAIN Alphabet : Alphabet[i] = c

\* s < t for str: lexicographic on bytes, a proper prefix is smaller.
RECURSIVE StrLess(_, _)
StrLess(s, t) ==
    IF t = <<>> THEN FALSE
    ELSE IF s = <<>> THEN TRUE
    ELSE IF Head(s) = Head(t) THEN StrLess(Tail(s), Tail(t))
    ELSE Code(Head(s)) < Code(Head(t))

\* String::push_str / concatenation of a sequence of strings.
RECURSIVE Concat(_)
Concat(ss) == IF ss = <<>> THEN <<>> ELSE Head(ss) \o Concat(Tail(ss))

\* ------------------------------------------------------- serde_json::Value

\* The members of an object are kept in the map's iteration order: the
\* default serde_json Map is a BTreeMap, ordered by key.
JString(s) == [kind |-> "String", s |-> s]
JObject(ms) == [kind |-> "Object", members |-> ms]

\* Map::insert: replaces the value of an existing key, else inserts in order.
RECURSIVE MapInsert(_, _, _)
MapInsert(ms, k, v) ==
    IF ms = <<>> THEN << [key |-> k, value |-> v] >>
    ELSE IF Head(ms).key = k THEN << [key |-> k, value |-> v] >> \o Tail(ms)
    ELSE IF StrLess(k, Head(ms).key) THEN << [key |-> k, value |-> v] >> \o ms
    ELSE << Head(ms) >> \o MapInsert(Tail(ms), k, v)

\* json!({ k1: v1, k2: v2, .. }): the members are inserted in source order.
RECURSIVE json_object(_)
json_object(pairs) ==
    IF pairs = <<>> THEN <<>>
    ELSE MapInsert(json_object(SubSeq(pairs, 1, Len(pairs) - 1)),
                   pairs[Len(pairs)][1], pairs[Len(pairs)][2])

\* Map::get
MapGet(ms, k) ==
    IF \E i \in DOMAIN ms : ms[i].key = k
    THEN Some(ms[CHOOSE i \in DOMAIN ms : ms[i].key = k].value)
    ELSE None

\* Mutant of EscapeChar: the text is written between the quotes as it is.
EscapeChar_Raw(c) == << c >>

\* The serializer's escape of one character of a string.
EscapeChar(c) ==
    CASE c = DQ -> << BS, DQ >>
      [] c = BS -> << BS, BS >>
      [] c = NL -> << BS, "n" >>
      [] OTHER -> << c >>

RECURSIVE EscapeStr(_)
EscapeStr(s) == IF s = <<>> THEN <<>> ELSE EscapeChar(Head(s)) \o EscapeStr(Tail(s))

Quoted(s) == << DQ >> \o EscapeStr(s) \o << DQ >>

\* Value::to_string: compact JSON text.
RECURSIVE to_string(_)
RECURSIVE MembersText(_)
MembersText(ms) ==
    IF ms = <<>> THEN <<>>
    ELSE Quoted(Head(ms).key) \o << ":" >> \o to_string(Head(ms).value)
         \o (IF Tail(ms) = <<>> THEN <<>> ELSE << "," >> \o MembersText(Tail(ms)))

to_string(v) ==
    IF v.kind = "String" THEN Quoted(v.s)
    ELSE << "{" >> \o MembersText(v.members) \o << "}" >>

\* serde_json::from_str for the JSON the model meets: strings and objects,
\* blanks allowed between tokens.  A result is [ok, val, next]: next is the
\* index after the text consumed.
ParseFail == [ok |-> FALSE, val |-> None, next |-> 0]

RECURSIVE SkipWs(_, _)
SkipWs(s, i) == IF i <= Len(s) /\ s[i] \in {" ", NL} THEN SkipWs(s, i + 1) ELSE i

RECURSIVE ParseStrBody(_, _, _)
ParseStrBody(s, i, acc) ==
    IF i > Len(s) THEN ParseFail
    ELSE IF s[i] = DQ THEN [ok |-> TRUE, val |-> acc, next |-> i + 1]
    ELSE IF s[i] = BS THEN
        IF i + 1 > Len(s) THEN ParseFail
        ELSE IF s[i + 1] \in {DQ, BS} THEN ParseStrBody(s, i + 2, Append(acc, s[i + 1]))
        ELSE IF s[i + 1] = "n" THEN ParseStrBody(s, i + 2, Append(acc, NL))
        ELSE ParseFail
    ELSE IF s[i] = NL THEN ParseFail
    ELSE ParseStrBody(s, i + 1, Append(acc, s[i]))

RECURSIVE ParseValue(_, _)
RECURSIVE ParseMembers(_, _, _)
ParseMembers(s, i0, ms) ==
    LET i == SkipWs(s, i0) IN
    IF i > Len(s) \/ s[i] # DQ THEN ParseFail
    ELSE
      LET k == ParseStrBody(s, i + 1, <<>>) IN
      IF ~k.ok THEN ParseFail
      ELSE
        LET j == SkipWs(s, k.next) IN
        IF j > Len(s) \/ s[j] # ":" THEN ParseFail
        ELSE
          LET v == ParseValue(s, j + 1) IN
          IF ~v.ok THEN ParseFail
          ELSE
            LET n == SkipWs(s, v.next)
                ms2 == MapInsert(ms, k.val, v.val) IN
            IF n > Len(s) THEN ParseFail
            ELSE IF s[n] = "," THEN ParseMembers(s, n + 1, ms2)
            ELSE IF s[n] = "}" THEN [ok |-> TRUE, val |-> JObject(ms2), next |-> n + 1]
            ELSE ParseFail

ParseValue(s, i0) ==
    LET i == SkipWs(s, i0) IN
    IF i > Len(s) THEN ParseFail
    ELSE IF s[i] = DQ THEN
        LET r == ParseStrBody(s, i + 1, <<>>) IN
        IF r.ok THEN [ok |-> TRUE, val |-> JString(r.val), next |-> r.next] ELSE ParseFail
    ELSE IF s[i] = "{" THEN
        LET j == SkipWs(s, i + 1) IN
        IF j <= Len(s) /\ s[j] = "}"
        THEN [ok |-> TRUE, val |-> JObject(<<>>), next |-> j + 1]
        ELSE ParseMembers(s, i + 1, <<>>)
    ELSE ParseFail

from_str(s) ==
    LET r == ParseValue(s, 1) IN
    IF r.ok /\ SkipWs(s, r.next) = Len(s) + 1
    THEN [ok |-> TRUE, val |-> r.val]
    ELSE [ok |-> FALSE, val |-> None]

\* ------------------------------------------------------------------ tools

\* create_tool: a Tool of type Function carrying the name, the description
\* and the parameter schema.
create_tool(name, description, parameters) ==
    [tp |-> "Function",
     function |-> [name |-> name,
                   description |-> Some(description),
                   parameters |-> Some(parameters)]]

\* The tool the session loop registers.
query_tool == create_tool("execute_query", "Execute a SQL query", "query: string")

\* The tools a caller registers in the model.
ToolDefs == { query_tool, create_tool("other_tool", "Another tool", "none") }

\* The lists a caller hands to set_tools.
ToolLists == { <<>>, << create_tool("other_tool", "Another tool", "none"), query_tool >> }

\* ---------------------------------------------------------------- request

\* mistralrs RequestBuilder: the messages, the tools and the tool choice.
RequestBuilder_new == [messages |-> <<>>, tools |-> <<>>, tool_choice |-> None]

add_message(builder, role, content) ==
    [builder EXCEPT !.messages = Append(@, [role |-> role, content |-> content])]

set_tools_builder(builder, ts) == [builder EXCEPT !.tools = ts]

set_tool_choice(builder, choice) == [builder EXCEPT !.tool_choice = Some(choice)]

\* Mutant of FoldMessages: every message is put in front of the earlier ones.
RECURSIVE FoldMessages_Reversed(_, _)
FoldMessages_Reversed(builder, turns) ==
    IF turns = <<>> THEN builder
    ELSE FoldMessages_Reversed(
             [builder EXCEPT !.messages =
                  << [role |-> Head(turns).role, content |-> Head(turns).content] >> \o @],
             Tail(turns))

\* history.iter().fold(RequestBuilder::new(), |b, (role, content)| b.add_message(..))
RECURSIVE FoldMessages(_, _)
FoldMessages(builder, turns) ==
    IF turns = <<>> THEN builder
    ELSE FoldMessages(add_message(builder, Head(turns).role, Head(turns).content),
                      Tail(turns))

\* ----------------------------------------------------- collaborator inputs

\* TextMessageRole
System == "System"
User == "User"
Assistant == "Assistant"
Tool == "Tool"

\* Prompts a caller gives to stream_completion and set_system_prompt.
Prompts == { << "h", "i" >>, <<>> }
SystemPrompts == { << "s", "y", "s" >> }

\* Identifiers and result texts a caller gives to add_tool_result; the
\* second result text holds the characters the serializer escapes.
ToolCallIds == { << "c", "1" >> }
ResultTexts == { << "o", "k" >>, << "a", DQ, BS, NL >> }

\* Tool calls as the collaborator sends them in a delta.
CallResponse(id, name, arguments) ==
    [id |-> id, function |-> [name |-> name, arguments |-> arguments]]

Call1 == CallResponse(<< "c", "1" >>, "execute_query",
                      << "{", DQ, "q", "u", "e", "r", "y", DQ, ":", DQ, "s", DQ, "}" >>)
Call2 == CallResponse(<< "c", "2" >>, "other_tool", << "{", "}" >>)

Choice(content, tool_calls) == [delta |-> [content |-> content, tool_calls |-> tool_calls]]

Chunk(choices) == [type |-> "Chunk", choices |-> choices]

\* The responses the collaborator puts on a stream: chunks without a choice,
\* with text, with tool calls, with both, with a second choice, and the
\* error response ModelError, which is no chunk.
Responses ==
    { Chunk(<<>>),
      Chunk(<< Choice(Some(<< "a" >>), None) >>),
      Chunk(<< Choice(None, Some(<< Call1 >>)) >>),
      Chunk(<< Choice(Some(<< "b" >>), Some(<< Call2, Call1 >>)) >>),
      Chunk(<< Choice(None, Some(<<>>)), Choice(Some(<< "b" >>), Some(<< Call1 >>)) >>),
      [type |-> "ModelError", choices |-> <<>>] }

IsErrorResponse(resp) == resp.type = "ModelError"

\* slice::first
first(seq) == IF seq = <<>> THEN None ELSE Some(seq[1])

\* StreamChunk
TextEvent(content) == [type |-> "Text", text |-> content]
ToolCallEvent(info) == [type |-> "ToolCall", call |-> info]

ToolCallInfo(id, name, arguments) == [id |-> id, name |-> name, arguments |-> arguments]

\* -------------------------------------------------------------------- state

VARIABLES
    history,        \* LLM.history: the turns, [role, content]
    tools,          \* LLM.tools: the registry
    pc,             \* "idle", or the handler whose stream is being consumed
    full_response,  \* the in-flight call's text accumulator
    tool_calls,     \* the in-flight call's collected tool calls
    request,        \* Some(request) handed to the collaborator by the latest call
    events,         \* what the latest call has passed to on_chunk, in order
    result,         \* Some(return value) of the latest call once it returned
    pulled,         \* responses the latest call has taken from its stream
    sawError,       \* the latest call has taken an error response from its stream
    call,           \* the latest call: its name, arguments and the session it met
    toolLog,        \* the registry operations performed, in order
    nSys,           \* set_system_prompt calls made
    nOk,            \* stream_completion / add_tool_result calls that returned Ok
    nErr            \* stream_completion / add_tool_result calls that returned Err

vars == << history, tools, pc, full_response, tool_calls, request, events, result,
           pulled, sawError, call, toolLog, nSys, nOk, nErr >>

locals == << full_response, tool_calls, request, events, result, pulled, sawError, call >>
counters == << nSys, nOk, nErr >>

\* State outside the session: the replay of a call through the other handler,
\* and the database operations.  The session's operations leave it alone.
VARIABLES
    twin,           \* the call being replayed: its stream, and what the first run gave
    fetched,        \* Some(what the database gave to the latest PostgresDatabase call)
    returned,       \* Some(what the latest PostgresDatabase call returned)
    session         \* the ui program's main: where it stands (at), the list of
                    \* the for loop and the index k in it, and what main has done:
                    \* the add_tool_result calls and the queries of this for loop
                    \* (fed, queries), and over the run the tool calls returned to
                    \* main and the add_tool_result calls made (emitted, answered)

others == << twin, fetched, returned, session >>

NoTwin ==
    [phase |-> "idle", opened |-> FALSE, start |-> <<>>, consumed |-> <<>>,
     marks |-> <<>>, first |-> None]

Ok(value) == [ok |-> TRUE, value |-> value]
Err(error) == [ok |-> FALSE, error |-> error]

\* main is not running: the handlers are called by an arbitrary caller.
NoSession ==
    [at |-> "off", list |-> <<>>, k |-> 0, fed |-> <<>>, queries |-> <<>>,
     emitted |-> 0, answered |-> 0]

NoCall == [op |-> "none", args |-> <<>>, before |-> <<>>, at_build |-> <<>>, registry |-> <<>>]

\* LLM::new: no turn, no tool.  No call is being replayed and no database
\* operation was made.
Init ==
    /\ history = <<>>
    /\ tools = <<>>
    /\ pc = "idle"
    /\ full_response = <<>>
    /\ tool_calls = <<>>
    /\ request = None
    /\ events = <<>>
    /\ result = None
    /\ pulled = 0
    /\ sawError = FALSE
    /\ call = NoCall
    /\ toolLog = <<>>
    /\ nSys = 0
    /\ nOk = 0
    /\ nErr = 0
    /\ twin = NoTwin
    /\ fetched = None
    /\ returned = None
    /\ session = NoSession

\* The size of the session explored so far.
Size == Len(history) + Len(toolLog)

\* The size up to which a session is explored.
Room == IF session.at = "off" THEN MaxSize ELSE MaxLoopSize

\* --------------------------------------------------------- registry, prompt

\* Mutant of add_tool: a tool whose name is registered already is not added.
add_tool_Dedup(tool) ==
    /\ pc = "idle"
    /\ Size < Room
    /\ tools' = IF \E i \in DOMAIN tools : tools[i].function.name = tool.function.name
                THEN tools
                ELSE Append(tools, tool)
    /\ toolLog' = Append(toolLog, [op |-> "add_tool", arg |-> << tool >>])
    /\ UNCHANGED << history, pc, locals, counters >>

\* LLM::add_tool: push the tool.
add_tool(tool) ==
    /\ pc = "idle"
    /\ Size < Room
    /\ tools' = Append(tools, tool)
    /\ toolLog' = Append(toolLog, [op |-> "add_tool", arg |-> << tool >>])
    /\ UNCHANGED << history, pc, locals, counters >>

\* Mutant of set_tools: a new registry starts a new conversation.
set_tools_NewConversation(list) ==
    /\ pc = "idle"
    /\ Size < Room
    /\ tools' = list
    /\ history' = <<>>
    /\ toolLog' = Append(toolLog, [op |-> "set_tools", arg |-> list])
    /\ UNCHANGED << pc, locals, counters >>

\* LLM::set_tools: replace the registry by the list.
set_tools(list) ==
    /\ pc = "idle"
    /\ Size < Room
    /\ tools' = list
    /\ toolLog' = Append(toolLog, [op |-> "set_tools", arg |-> list])
    /\ UNCHANGED << history, pc, locals, counters >>

\* LLM::tools: the registry as it is.
llm_tools == tools

\* Mutant of set_system_prompt: the System turn is put first.
set_system_prompt_First(prompt) ==
    /\ pc = "idle"
    /\ Size < Room
    /\ history' = << [role |-> System, content |-> prompt] >> \o history
    /\ nSys' = nSys + 1
    /\ UNCHANGED << tools, pc, locals, toolLog, nOk, nErr >>

\* LLM::set_system_prompt: push a System turn.
set_system_prompt(prompt) ==
    /\ pc = "idle"
    /\ Size < Room
    /\ history' = Append(history, [role |-> System, content |-> prompt])
    /\ nSys' = nSys + 1
    /\ UNCHANGED << tools, pc, locals, toolLog, nOk, nErr >>

\* -------------------------------------------------------- stream_completion

\* Mutant of SC_Push: an empty prompt is not pushed.
SC_Push_SkipEmpty(hist, prompt) ==
    IF prompt = <<>> THEN hist ELSE Append(hist, [role |-> User, content |-> prompt])

\* The User turn pushed on entry.
SC_Push(hist, prompt) == Append(hist, [role |-> User, content |-> prompt])

\* Mutant of SC_Request: the tools and the tool choice are set without
\* looking at the registry.
SC_Request_AlwaysTools(hist, ts) ==
    set_tool_choice(set_tools_builder(FoldMessages(RequestBuilder_new, hist), ts), "Auto")

\* The request: the fold over the history, the tools when there are any.
SC_Request(hist, ts) ==
    LET request_builder == FoldMessages(RequestBuilder_new, hist) IN
    IF ts # <<>>
    THEN set_tool_choice(set_tools_builder(request_builder, ts), "Auto")
    ELSE request_builder

\* Mutant of SC_Text: the accumulator is assigned the fragment, not extended.
SC_Text_Assign(resp, st) ==
    IF resp.type = "Chunk"
       /\ first(resp.choices) # None
       /\ first(resp.choices)[1].delta.content # None
    THEN LET content == first(resp.choices)[1].delta.content[1] IN
         [st EXCEPT !.full_response = content,
                    !.events = Append(@, TextEvent(content))]
    ELSE st

\* The text of the first choice, when the response is a chunk that has one:
\* accumulated, then passed to on_chunk.
SC_Text(resp, st) ==
    IF resp.type = "Chunk"
       /\ first(resp.choices) # None
       /\ first(resp.choices)[1].delta.content # None
    THEN LET content == first(resp.choices)[1].delta.content[1] IN
         [st EXCEPT !.full_response = @ \o content,
                    !.events = Append(@, TextEvent(content))]
    ELSE st

\* Mutant of SC_ToolCall: the first tool call of the last choice.
SC_ToolCall_LastChoice(resp, st) ==
    IF resp.type = "Chunk"
       /\ resp.choices # <<>>
       /\ resp.choices[Len(resp.choices)].delta.tool_calls # None
       /\ first(resp.choices[Len(resp.choices)].delta.tool_calls[1]) # None
    THEN LET c == first(resp.choices[Len(resp.choices)].delta.tool_calls[1])[1]
             tool_call_info == ToolCallInfo(c.id, c.function.name, c.function.arguments) IN
         [st EXCEPT !.tool_calls = Append(@, tool_call_info),
                    !.events = Append(@, ToolCallEvent(tool_call_info))]
    ELSE st

\* The first tool call of the first choice, when there is one: collected,
\* then passed to on_chunk.
SC_ToolCall(resp, st) ==
    IF resp.type = "Chunk"
       /\ first(resp.choices) # None
       /\ first(resp.choices)[1].delta.tool_calls # None
       /\ first(first(resp.choices)[1].delta.tool_calls[1]) # None
    THEN LET c == first(first(resp.choices)[1].delta.tool_calls[1])[1]
             tool_call_info == ToolCallInfo(c.id, c.function.name, c.function.arguments) IN
         [st EXCEPT !.tool_calls = Append(@, tool_call_info),
                    !.events = Append(@, ToolCallEvent(tool_call_info))]
    ELSE st

\* The body of the while loop for one response; any response that is no
\* chunk is skipped.
SC_OnResponse(resp, st) == SC_ToolCall(resp, SC_Text(resp, st))

\* Mutant of SC_Done: no Assistant turn for an empty response.
SC_Done_SkipEmpty(hist, full) ==
    IF full = <<>> THEN hist ELSE Append(hist, [role |-> Assistant, content |-> full])

\* The Assistant turn pushed when the stream has ended.
SC_Done(hist, full) == Append(hist, [role |-> Assistant, content |-> full])

\* Mutant of stream_completion: a refused stream takes the User turn back.
stream_completion_Rollback(prompt, opened) ==
    /\ pc = "idle"
    /\ Size + 2 <= Room
    /\ history' = IF opened THEN SC_Push(history, prompt) ELSE history
    /\ request' = Some(SC_Request(SC_Push(history, prompt), tools))
    /\ call' = [op |-> "stream_completion", args |-> << prompt >>, before |-> history,
                at_build |-> SC_Push(history, prompt), registry |-> tools]
    /\ full_response' = <<>>
    /\ tool_calls' = <<>>
    /\ events' = <<>>
    /\ pulled' = 0
    /\ sawError' = FALSE
    /\ IF opened
       THEN pc' = "stream_completion" /\ result' = None /\ UNCHANGED nErr
       ELSE pc' = "idle" /\ result' = Some(Err("stream_chat_request")) /\ nErr' = nErr + 1
    /\ UNCHANGED << tools, toolLog, nSys, nOk >>

\* Entry of stream_completion up to the opening of the stream, which the
\* collaborator grants or refuses; a refusal returns Err at once.
stream_completion(prompt, opened) ==
    /\ pc = "idle"
    /\ Size + 2 <= Room
    /\ history' = SC_Push(history, prompt)
    /\ request' = Some(SC_Request(history', tools))
    /\ call' = [op |-> "stream_completion", args |-> << prompt >>, before |-> history,
                at_build |-> history', registry |-> tools]
    /\ full_response' = <<>>
    /\ tool_calls' = <<>>
    /\ events' = <<>>
    /\ pulled' = 0
    /\ sawError' = FALSE
    /\ IF opened
       THEN pc' = "stream_completion" /\ result' = None /\ UNCHANGED nErr
       ELSE pc' = "idle" /\ result' = Some(Err("stream_chat_request")) /\ nErr' = nErr + 1
    /\ UNCHANGED << tools, toolLog, nSys, nOk >>

\* stream.next() yields a response: one pass of the loop body.
\* Mutant of stream_completion_next: the Assistant turn is appended as soon
\* as a response was handled, with the text accumulated so far.
stream_completion_next_Eager(resp) ==
    /\ pc = "stream_completion"
    /\ pulled < MaxChunks
    /\ LET st == SC_OnResponse(resp, [full_response |-> full_response,
                                      tool_calls |-> tool_calls,
                                      events |-> events]) IN
       /\ full_response' = st.full_response
       /\ tool_calls' = st.tool_calls
       /\ events' = st.events
       /\ history' = IF pulled = 0 THEN SC_Done(history, st.full_response) ELSE history
    /\ pulled' = pulled + 1
    /\ sawError' = (sawError \/ IsErrorResponse(resp))
    /\ UNCHANGED << tools, pc, request, result, call, toolLog, counters >>

stream_completion_next(resp) ==
    /\ pc = "stream_completion"
    /\ pulled < MaxChunks
    /\ LET st == SC_OnResponse(resp, [full_response |-> full_response,
                                      tool_calls |-> tool_calls,
                                      events |-> events]) IN
       /\ full_response' = st.full_response
       /\ tool_calls' = st.tool_calls
       /\ events' = st.events
    /\ pulled' = pulled + 1
    /\ sawError' = (sawError \/ IsErrorResponse(resp))
    /\ UNCHANGED << history, tools, pc, request, result, call, toolLog, counters >>

\* stream.next() yields None: the Assistant turn is pushed, Ok is returned.
stream_completion_end ==
    /\ pc = "stream_completion"
    /\ history' = SC_Done(history, full_response)
    /\ result' = Some(Ok(tool_calls))
    /\ pc' = "idle"
    /\ nOk' = nOk + 1
    /\ UNCHANGED << tools, full_response, tool_calls, request, events, pulled,
                    sawError, call, toolLog, nSys, nErr >>

\* ---------------------------------------------------------- add_tool_result

\* The Tool turn pushed on entry: the JSON text of the id and the result.
TR_Push(hist, tool_call_id, res) ==
    Append(hist,
           [role |-> Tool,
            content |-> to_string(JObject(json_object(
                << << << "t", "o", "o", "l", "_", "c", "a", "l", "l", "_", "i", "d" >>,
                      JString(tool_call_id) >>,
                   << << "c", "o", "n", "t", "e", "n", "t" >>, JString(res) >> >>)))])

\* The request, built as in stream_completion.
TR_Request(hist, ts) ==
    LET request_builder == FoldMessages(RequestBuilder_new, hist) IN
    IF ts # <<>>
    THEN set_tool_choice(set_tools_builder(request_builder, ts), "Auto")
    ELSE request_builder

\* The text of the first choice: accumulated, then passed to on_chunk.
TR_Text(resp, st) ==
    IF resp.type = "Chunk"
       /\ first(resp.choices) # None
       /\ first(resp.choices)[1].delta.content # None
    THEN LET content == first(resp.choices)[1].delta.content[1] IN
         [st EXCEPT !.full_response = @ \o content,
                    !.events = Append(@, TextEvent(content))]
    ELSE st

\* Mutant of TR_ToolCall: the list keeps the latest tool call only.
TR_ToolCall_KeepLatest(resp, st) ==
    IF resp.type = "Chunk"
       /\ first(resp.choices) # None
       /\ first(resp.choices)[1].delta.tool_calls # None
       /\ first(first(resp.choices)[1].delta.tool_calls[1]) # None
    THEN LET c == first(first(resp.choices)[1].delta.tool_calls[1])[1]
             tool_call_info == ToolCallInfo(c.id, c.function.name, c.function.arguments) IN
         [st EXCEPT !.tool_calls = << tool_call_info >>,
                    !.events = Append(@, ToolCallEvent(tool_call_info))]
    ELSE st

\* The first tool call of the first choice: collected, then passed to on_chunk.
TR_ToolCall(resp, st) ==
    IF resp.type = "Chunk"
       /\ first(resp.choices) # None
       /\ first(resp.choices)[1].delta.tool_calls # None
       /\ first(first(resp.choices)[1].delta.tool_calls[1]) # None
    THEN LET c == first(first(resp.choices)[1].delta.tool_calls[1])[1]
             tool_call_info == ToolCallInfo(c.id, c.function.name, c.function.arguments) IN
         [st EXCEPT !.tool_calls = Append(@, tool_call_info),
                    !.events = Append(@, ToolCallEvent(tool_call_info))]
    ELSE st

\* Mutant of TR_OnResponse: the tool call is handled before the text.
TR_OnResponse_CallFirst(resp, st) == TR_Text(resp, TR_ToolCall(resp, st))

TR_OnResponse(resp, st) == TR_ToolCall(resp, TR_Text(resp, st))

TR_Done(hist, full) == Append(hist, [role |-> Assistant, content |-> full])

add_tool_result(tool_call_id, res, opened) ==
    /\ pc = "idle"
    /\ Size + 2 <= Room
    /\ history' = TR_Push(history, tool_call_id, res)
    /\ request' = Some(TR_Request(history', tools))
    /\ call' = [op |-> "add_tool_result", args |-> << tool_call_id, res >>,
                before |-> history, at_build |-> history', registry |-> tools]
    /\ full_response' = <<>>
    /\ tool_calls' = <<>>
    /\ events' = <<>>
    /\ pulled' = 0
    /\ sawError' = FALSE
    /\ IF opened
       THEN pc' = "add_tool_result" /\ result' = None /\ UNCHANGED nErr
       ELSE pc' = "idle" /\ result' = Some(Err("stream_chat_request")) /\ nErr' = nErr + 1
    /\ UNCHANGED << tools, toolLog, nSys, nOk >>

add_tool_result_next(resp) ==
    /\ pc = "add_tool_result"
    /\ pulled < MaxChunks
    /\ LET st == TR_OnResponse(resp, [full_response |-> full_response,
                                      tool_calls |-> tool_calls,
                                      events |-> events]) IN
       /\ full_response' = st.full_response
       /\ tool_calls' = st.tool_calls
       /\ events' = st.events
    /\ pulled' = pulled + 1
    /\ sawError' = (sawError \/ IsErrorResponse(resp))
    /\ UNCHANGED << history, tools, pc, request, result, call, toolLog, counters >>

add_tool_result_end ==
    /\ pc = "add_tool_result"
    /\ history' = TR_Done(history, full_response)
    /\ result' = Some(Ok(tool_calls))
    /\ pc' = "idle"
    /\ nOk' = nOk + 1
    /\ UNCHANGED << tools, full_response, tool_calls, request, events, pulled,
                    sawError, call, toolLog, nSys, nErr >>

\* ------------------------------------------------------------ specification

AddTool == (\E tool \in ToolDefs : add_tool(tool)) /\ UNCHANGED others
SetTools == (\E list \in ToolLists : set_tools(list)) /\ UNCHANGED others
SetSystemPrompt ==
    (\E prompt \in SystemPrompts : set_system_prompt(prompt)) /\ UNCHANGED others
StreamCompletion ==
    /\ \E prompt \in Prompts, opened \in BOOLEAN : stream_completion(prompt, opened)
    /\ UNCHANGED others
StreamCompletionNext ==
    (\E resp \in Responses : stream_completion_next(resp)) /\ UNCHANGED others
StreamCompletionEnd == stream_completion_end /\ UNCHANGED others
AddToolResult ==
    /\ \E id \in ToolCallIds, res \in ResultTexts, opened \in BOOLEAN :
           add_tool_result(id, res, opened)
    /\ UNCHANGED others
AddToolResultNext ==
    (\E resp \in Responses : add_tool_result_next(resp)) /\ UNCHANGED others
AddToolResultEnd == add_tool_result_end /\ UNCHANGED others

Next ==
    \/ AddTool
    \/ SetTools
    \/ SetSystemPrompt
    \/ StreamCompletion
    \/ StreamCompletionNext
    \/ StreamCompletionEnd
    \/ AddToolResult
    \/ AddToolResultNext
    \/ AddToolResultEnd

allvars == << vars, others >>

Spec == Init /\ [][Next]_allvars

\* ------------------------------------------------------- claims: vocabulary

IsPrefix(s, t) == Len(s) <= Len(t) /\ SubSeq(t, 1, Len(s)) = s

Returned == result # None
ReturnedOk == result # None /\ result[1].ok
ReturnedErr == result # None /\ ~result[1].ok

\* The fragments of the Text events, and the calls of the ToolCall events,
\* each in the order of the events.
RECURSIVE TextFragments(_)
TextFragments(evs) ==
    IF evs = <<>> THEN <<>>
    ELSE IF Head(evs).type = "Text" THEN << Head(evs).text >> \o TextFragments(Tail(evs))
    ELSE TextFragments(Tail(evs))

RECURSIVE EmittedCalls(_)
EmittedCalls(evs) ==
    IF evs = <<>> THEN <<>>
    ELSE IF Head(evs).type = "ToolCall" THEN << Head(evs).call >> \o EmittedCalls(Tail(evs))
    ELSE EmittedCalls(Tail(evs))

\* Where the latest call's Assistant turn goes: right after the history the
\* request was built from.
AssistantIndex == Len(call.at_build) + 1

\* ----------------------------------------------------------------------- C1

\* C1 as stated: between calls, the history has grown by exactly two turns
\* for every stream_completion / add_tool_result call made, whatever its
\* outcome (the System turns of set_system_prompt counted apart).
C1_TwoTurnsPerCall ==
    pc = "idle" => Len(history) = nSys + 2 * (nOk + nErr)

\* C1 amended: the history grows by two turns for every call that returned
\* Ok and by one turn, the request-role turn, for every call that returned
\* Err; while a call is in flight its request-role turn is already there.
C1_TurnsByOutcome ==
    Len(history) = nSys + 2 * nOk + nErr + (IF pc = "idle" THEN 0 ELSE 1)

C1_Witness ==
    /\ pc = "idle"
    /\ nOk >= 1
    /\ nErr >= 1
    /\ \E i \in DOMAIN history : history[i].role = Assistant /\ history[i].content = <<>>

\* ----------------------------------------------------------------------- C2

\* C2: once a call has returned Ok, the Assistant turn it appended holds the
\* concatenation, in emission order, of the fragments of the Text events it
\* passed to on_chunk; without any Text event the turn is there and empty.
C2_AssistantIsEmittedText ==
    ReturnedOk =>
        /\ Len(history) >= AssistantIndex
        /\ history[AssistantIndex] =
               [role |-> Assistant, content |-> Concat(TextFragments(events))]

C2_Witness ==
    /\ ReturnedOk
    /\ TextFragments(events) = << << "a" >>, << "b" >> >>
    /\ history[AssistantIndex].content = << "a", "b" >>

\* ----------------------------------------------------------------------- C3

\* C3: every step of every operation, failed calls included, leaves the old
\* history as a prefix of the new one.
C3_HistoryAppendOnly == [][IsPrefix(history, history')]_vars

C3_Witness ==
    /\ nErr >= 1
    /\ nOk >= 1
    /\ nSys >= 1
    /\ history[1].role # System

\* ----------------------------------------------------------------------- C4

\* C4: a call whose stream delivered an error response returns Err.
C4_MidStreamErrorReturnsErr ==
    (Returned /\ sawError) => ~result[1].ok

\* ----------------------------------------------------------------------- C5

\* C5: the step in which a call returns Err appends the request-role turn of
\* that call (User with the prompt for stream_completion, a Tool turn for
\* add_tool_result) as the last turn and nothing else, keeps every earlier
\* turn, and has passed no event to on_chunk.
C5_ErrKeepsRequestTurnOnly ==
    [][ nErr' = nErr + 1 =>
          /\ Len(history') = Len(history) + 1
          /\ SubSeq(history', 1, Len(history)) = history
          /\ history'[Len(history')].role =
                 (IF call'.op = "stream_completion" THEN User ELSE Tool)
          /\ (call'.op = "stream_completion" =>
                 history'[Len(history')].content = call'.args[1])
          /\ \A i \in DOMAIN history' : i > Len(history) => history'[i].role # Assistant
          /\ events' = <<>>
          /\ ~result'[1].ok ]_vars

C5_Witness ==
    /\ ReturnedErr
    /\ Len(call.before) >= 2
    /\ history = call.at_build

\* ----------------------------------------------------------------------- C6

\* C6: the list a call returns with Ok is, element for element and in order,
\* the calls of the ToolCall events it passed to on_chunk.
C6_ReturnedCallsAreEmittedCalls ==
    ReturnedOk => result[1].value = EmittedCalls(events)

C6_Witness ==
    /\ ReturnedOk
    /\ Len(result[1].value) = 2
    /\ result[1].value[1] # result[1].value[2]

\* ----------------------------------------------------------------------- C7

\* C7: the messages of the request a call builds are the whole history at
\* build time, turn for turn in order, and the last message is the turn the
\* call has just pushed: User with the prompt, respectively a Tool turn.
\* While the call consumes its stream the history is still that one.
C7_RequestReplaysHistory ==
    request # None =>
        /\ request[1].messages = call.at_build
        /\ Len(request[1].messages) = Len(call.before) + 1
        /\ request[1].messages[Len(request[1].messages)].role =
               (IF call.op = "stream_completion" THEN User ELSE Tool)
        /\ (call.op = "stream_completion" =>
               request[1].messages[Len(request[1].messages)].content = call.args[1])
        /\ (pc # "idle" => request[1].messages = history)

C7_Witness ==
    /\ pc # "idle"
    /\ Len(request[1].messages) = 3
    /\ request[1].messages[1].role = System
    /\ request[1].messages[2].role = Tool
    /\ request[1].messages[3].role = User

\* ----------------------------------------------------------------------- C8

\* C8: a request carries tools and the Auto tool choice exactly when the
\* registry was not empty when it was built, the tools it carries are that
\* registry, and this stays so whatever add_tool / set_tools do afterwards.
C8_RequestCarriesRegistry ==
    request # None =>
        /\ request[1].tools = call.registry
        /\ (call.registry # <<>> <=> request[1].tool_choice = Some("Auto"))
        /\ (call.registry = <<>> <=> request[1].tool_choice = None)
        /\ (pc # "idle" => call.registry = tools)

C8_Witness ==
    /\ request # None
    /\ request[1].tool_choice = Some("Auto")
    /\ Len(request[1].tools) = 1
    /\ tools # request[1].tools

\* ----------------------------------------------------------------------- C9

\* The registry the operations performed call for: the list of the last
\* set_tools, or no tool when there was none, then the tool of every
\* add_tool after it, in call order.
LastSetTools(log) ==
    IF \E i \in DOMAIN log : log[i].op = "set_tools"
    THEN CHOOSE i \in DOMAIN log :
             /\ log[i].op = "set_tools"
             /\ \A j \in DOMAIN log : log[j].op = "set_tools" => j <= i
    ELSE 0

RegistryOf(log) ==
    LET k == LastSetTools(log)
        base == IF k = 0 THEN <<>> ELSE log[k].arg
        added == [i \in 1..(Len(log) - k) |-> log[k + i].arg[1]] IN
    base \o added

\* C9: tools() is the list given to the last set_tools followed by the tools
\* added since, in call order, duplicates kept.
C9_RegistryIsOrderedList == llm_tools = RegistryOf(toolLog)

C9_Witness ==
    /\ Len(toolLog) >= 3
    /\ toolLog[1].op = "set_tools"
    /\ toolLog[1].arg # <<>>
    /\ toolLog[2].op = "add_tool"
    /\ toolLog[3] = toolLog[2]
    /\ Len(llm_tools) = 4
    /\ llm_tools[3].function.name = llm_tools[4].function.name

\* ---------------------------------------------------------------------- C10

ToolTurnsSince(i) == { j \in DOMAIN history : j >= i /\ history[j].role = Tool }

KeyToolCallId == << "t", "o", "o", "l", "_", "c", "a", "l", "l", "_", "i", "d" >>
KeyContent == << "c", "o", "n", "t", "e", "n", "t" >>

\* C10: add_tool_result pushes exactly one Tool turn, which the request it
\* builds already holds, and the content of that turn parses as a JSON
\* object of exactly two members: tool_call_id, the id given, and content,
\* the result text given.
C10_ToolTurnIsJsonOfIdAndResult ==
    call.op = "add_tool_result" =>
        LET i == Len(call.before) + 1
            parsed == from_str(history[i].content) IN
        /\ history[i].role = Tool
        /\ ToolTurnsSince(i) = { i }
        /\ request[1].messages[i] = history[i]
        /\ parsed.ok
        /\ parsed.val.kind = "Object"
        /\ Len(parsed.val.members) = 2
        /\ MapGet(parsed.val.members, KeyToolCallId) = Some(JString(call.args[1]))
        /\ MapGet(parsed.val.members, KeyContent) = Some(JString(call.args[2]))

C10_Witness ==
    /\ call.op = "add_tool_result"
    /\ ReturnedOk
    /\ \E j \in DOMAIN call.args[2] : call.args[2][j] = DQ
    /\ \E j \in DOMAIN call.args[2] : call.args[2][j] = NL

\* ------------------------------------------------- replay of a call (twin)

\* One stream given to both handlers: stream_completion runs first on the
\* session, the stream it consumes is recorded, the session is put back to
\* the history the call met, and add_tool_result runs on the recorded
\* stream.  twin.marks gives, for every event passed to on_chunk by the run
\* in progress, the number of the response being processed at that time.

\* What a run left: taken in the step in which the call returns.
Snapshot(h, evs, res, req, marks) ==
    [history |-> h, events |-> evs, result |-> res, request |-> req, marks |-> marks]

\* The marks of the events one response added.
NewMarks(before, after, n) == [i \in 1..(Len(after) - Len(before)) |-> n]

TwinSetTools ==
    /\ twin.phase = "idle"
    /\ \E list \in ToolLists : set_tools(list)
    /\ UNCHANGED others

TwinSetSystemPrompt ==
    /\ twin.phase = "idle"
    /\ \E prompt \in SystemPrompts : set_system_prompt(prompt)
    /\ UNCHANGED others

\* The first run: stream_completion, its stream opened or refused.
TwinFirst ==
    /\ twin.phase = "idle"
    /\ \E prompt \in Prompts, opened \in BOOLEAN :
          /\ stream_completion(prompt, opened)
          /\ twin' = [phase |-> IF opened THEN "first" ELSE "rewind",
                      opened |-> opened,
                      start |-> history,
                      consumed |-> <<>>,
                      marks |-> <<>>,
                      first |-> IF opened THEN None
                                ELSE Some(Snapshot(history', events', result', request', <<>>))]
    /\ UNCHANGED << fetched, returned, session >>

TwinFirstNext ==
    /\ twin.phase = "first"
    /\ \E resp \in Responses :
          /\ stream_completion_next(resp)
          /\ twin' = [twin EXCEPT !.consumed = Append(@, resp),
                                  !.marks = @ \o NewMarks(events, events', pulled')]
    /\ UNCHANGED << fetched, returned, session >>

TwinFirstEnd ==
    /\ twin.phase = "first"
    /\ stream_completion_end
    /\ twin' = [twin EXCEPT !.phase = "rewind",
                            !.first = Some(Snapshot(history', events', result', request',
                                                    twin.marks))]
    /\ UNCHANGED << fetched, returned, session >>

\* A session with the history the first run met, and the same registry.
TwinRewind ==
    /\ twin.phase = "rewind"
    /\ history' = twin.start
    /\ twin' = [twin EXCEPT !.phase = "second", !.marks = <<>>]
    /\ UNCHANGED << tools, pc, locals, toolLog, counters, fetched, returned, session >>

\* The second run: add_tool_result, its stream opened or refused as the
\* first one was, and yielding the recorded responses.
TwinSecond ==
    /\ twin.phase = "second"
    /\ \E id \in ToolCallIds, res \in ResultTexts :
          add_tool_result(id, res, twin.opened)
    /\ twin' = [twin EXCEPT !.phase = IF twin.opened THEN "replay" ELSE "done"]
    /\ UNCHANGED << fetched, returned, session >>

TwinSecondNext ==
    /\ twin.phase = "replay"
    /\ pulled < Len(twin.consumed)
    /\ add_tool_result_next(twin.consumed[pulled + 1])
    /\ twin' = [twin EXCEPT !.marks = @ \o NewMarks(events, events', pulled')]
    /\ UNCHANGED << fetched, returned, session >>

TwinSecondEnd ==
    /\ twin.phase = "replay"
    /\ pulled = Len(twin.consumed)
    /\ add_tool_result_end
    /\ twin' = [twin EXCEPT !.phase = "done"]
    /\ UNCHANGED << fetched, returned, session >>

\* The replay is over; the session goes on from the second run.
TwinReset ==
    /\ twin.phase = "done"
    /\ twin' = NoTwin
    /\ UNCHANGED << vars, fetched, returned, session >>

NextTwin ==
    \/ TwinSetTools
    \/ TwinSetSystemPrompt
    \/ TwinFirst
    \/ TwinFirstNext
    \/ TwinFirstEnd
    \/ TwinRewind
    \/ TwinSecond
    \/ TwinSecondNext
    \/ TwinSecondEnd
    \/ TwinReset

SpecTwin == Init /\ [][NextTwin]_allvars

\* ---------------------------------------------------------------------- C11

\* C11: from the same history and registry and on the same stream,
\* add_tool_result passes the same events to on_chunk as stream_completion,
\* returns the same result (the same tool calls, or the same error), builds
\* a request with the same tools, and leaves a history that differs from
\* the other one in the request-role turn only: a Tool turn for a User turn.
C11_SameAlgorithm ==
    twin.phase = "done" =>
        LET f == twin.first[1]
            i == Len(twin.start) + 1 IN
        /\ events = f.events
        /\ twin.marks = f.marks
        /\ result[1].ok = f.result[1].ok
        /\ (result[1].ok => result[1].value = f.result[1].value)
        /\ (~result[1].ok => result[1].error = f.result[1].error)
        /\ Len(history) = Len(f.history)
        /\ \A j \in DOMAIN history : j # i => history[j] = f.history[j]
        /\ f.history[i].role = User
        /\ history[i].role = Tool
        /\ request[1].tools = f.request[1].tools
        /\ request[1].tool_choice = f.request[1].tool_choice
        /\ Len(request[1].messages) = Len(f.request[1].messages)
        /\ \A j \in DOMAIN request[1].messages :
               j # i => request[1].messages[j] = f.request[1].messages[j]

C11_Witness ==
    /\ twin.phase = "done"
    /\ Len(twin.start) >= 1
    /\ tools # <<>>
    /\ Len(twin.consumed) = 2
    /\ Len(events) = 3
    /\ Len(result[1].value) = 1
    /\ history[Len(history)].content # <<>>

\* ---------------------------------------------------------------------- C12

\* What a response holds for the handlers: the text of its first choice and
\* the first tool call of its first choice, if it is a chunk with a choice.
ChunkText(resp) ==
    IF resp.type = "Chunk" /\ Len(resp.choices) >= 1
    THEN resp.choices[1].delta.content
    ELSE None

ChunkCall(resp) ==
    IF resp.type = "Chunk" /\ Len(resp.choices) >= 1
       /\ resp.choices[1].delta.tool_calls # None
       /\ Len(resp.choices[1].delta.tool_calls[1]) >= 1
    THEN LET c == resp.choices[1].delta.tool_calls[1][1] IN
         Some([id |-> c.id, name |-> c.function.name, arguments |-> c.function.arguments])
    ELSE None

ChunkEvents(resp) ==
    (IF ChunkText(resp) # None THEN << TextEvent(ChunkText(resp)[1]) >> ELSE <<>>)
    \o (IF ChunkCall(resp) # None THEN << ToolCallEvent(ChunkCall(resp)[1]) >> ELSE <<>>)

RECURSIVE ExpectedEvents(_)
ExpectedEvents(resps) ==
    IF resps = <<>> THEN <<>>
    ELSE ChunkEvents(Head(resps)) \o ExpectedEvents(Tail(resps))

\* The run in progress, or the one that just returned, has its events in
\* events and their marks in twin.marks.
TwinRunVisible == twin.phase \in {"first", "rewind", "replay", "done"}

\* The events passed to on_chunk while response number n was in hand.
RECURSIVE EventsOfFrom(_, _, _)
EventsOfFrom(evs, marks, n) ==
    IF evs = <<>> THEN <<>>
    ELSE (IF Head(marks) = n THEN << Head(evs) >> ELSE <<>>)
         \o EventsOfFrom(Tail(evs), Tail(marks), n)

EventsOf(n) == EventsOfFrom(events, twin.marks, n)

\* C12: the events are passed to on_chunk in the order in which the stream
\* yields the responses, all the events of a response while that response is
\* in hand (before the next one is pulled); and as long as the stream has
\* not ended the history holds no Assistant turn for the call: that turn is
\* appended after the last event of the last response.
C12_EventsInArrivalOrder ==
    TwinRunVisible =>
        /\ Len(twin.marks) = Len(events)
        /\ \A k \in 1..(Len(twin.marks) - 1) : twin.marks[k] <= twin.marks[k + 1]
        /\ \A n \in 1..pulled : EventsOf(n) = ChunkEvents(twin.consumed[n])
        /\ events = ExpectedEvents(SubSeq(twin.consumed, 1, pulled))
        /\ (pc # "idle" =>
               /\ Len(history) = Len(twin.start) + 1
               /\ history[Len(history)].role \in {User, Tool})
        /\ (pc = "idle" /\ twin.opened =>
               /\ pulled = Len(twin.consumed)
               /\ Len(history) = Len(twin.start) + 2
               /\ history[Len(history)].role = Assistant)

C12_Witness ==
    /\ twin.phase = "rewind"
    /\ twin.opened
    /\ Len(twin.consumed) = 2
    /\ twin.marks = << 1, 2, 2 >>
    /\ events[1].type = "Text"
    /\ events[3].type = "ToolCall"
    /\ history[Len(history)].role = Assistant

\* ---------------------------------------------------------------------- C13

\* How many events of a list have the given type.
CountType(evs, type) == Cardinality({k \in DOMAIN evs : evs[k].type = type})

\* C13: a response gives at most one Text event and at most one ToolCall
\* event, the Text event first; a response that is no chunk or a chunk
\* without a choice gives none; the Text event carries the content of the
\* first choice and the ToolCall event the first tool call of the first
\* choice.  Nothing else of a response reaches on_chunk, the accumulated
\* text, the collected calls, the returned list or the Assistant turn.
C13_FirstChoiceFirstCallOnly ==
    TwinRunVisible =>
        /\ \A n \in 1..pulled :
              LET es == EventsOf(n)
                  resp == twin.consumed[n] IN
              /\ CountType(es, "Text") <= 1
              /\ CountType(es, "ToolCall") <= 1
              /\ Len(es) = CountType(es, "Text") + CountType(es, "ToolCall")
              /\ (Len(es) = 2 => es[1].type = "Text")
              /\ (resp.type # "Chunk" \/ resp.choices = <<>> => es = <<>>)
              /\ \A k \in DOMAIN es :
                    /\ es[k].type = "Text" =>
                          resp.choices[1].delta.content = Some(es[k].text)
                    /\ es[k].type = "ToolCall" =>
                          /\ resp.choices[1].delta.tool_calls # None
                          /\ resp.choices[1].delta.tool_calls[1] # <<>>
                          /\ LET c == resp.choices[1].delta.tool_calls[1][1] IN
                             /\ es[k].call.id = c.id
                             /\ es[k].call.name = c.function.name
                             /\ es[k].call.arguments = c.function.arguments
        /\ full_response = Concat(TextFragments(events))
        /\ tool_calls = EmittedCalls(events)
        /\ (pc = "idle" /\ twin.opened =>
               /\ result[1].ok
               /\ result[1].value = EmittedCalls(events)
               /\ history[Len(history)].content = Concat(TextFragments(events)))

C13_Witness ==
    /\ twin.phase = "done"
    /\ Len(twin.consumed) = 2
    /\ Len(twin.consumed[1].choices) = 2
    /\ EventsOf(1) = <<>>
    /\ twin.consumed[2].type = "Chunk"
    /\ Len(twin.consumed[2].choices) = 1
    /\ twin.consumed[2].choices[1].delta.tool_calls # None
    /\ Len(twin.consumed[2].choices[1].delta.tool_calls[1]) = 2
    /\ Len(EventsOf(2)) = 2
    /\ Len(result[1].value) = 1

\* ------------------------------------------- PostgresDatabase: get_results

MaxCols == 2
MaxRows == 2

\* serde_json::Value: the variants besides String and Object.
JNumber(n) == [kind |-> "Number", n |-> n]
JBool(b) == [kind |-> "Bool", b |-> b]
JNull == [kind |-> "Null"]

\* Type names, as texts: those of the arms of the match, then names the
\* match has no arm for (two spellings in lower case, OID) and the udt_name
\* text of the catalog.
T ==
    [UUID |-> << "U", "U", "I", "D" >>,
     TEXT |-> << "T", "E", "X", "T" >>,
     VARCHAR |-> << "V", "A", "R", "C", "H", "A", "R" >>,
     CHAR |-> << "C", "H", "A", "R" >>,
     DATE |-> << "D", "A", "T", "E" >>,
     TIMESTAMP |-> << "T", "I", "M", "E", "S", "T", "A", "M", "P" >>,
     TIMESTAMPTZ |-> << "T", "I", "M", "E", "S", "T", "A", "M", "P", "T", "Z" >>,
     INT2 |-> << "I", "N", "T", "2" >>,
     INT4 |-> << "I", "N", "T", "4" >>,
     INT8 |-> << "I", "N", "T", "8" >>,
     FLOAT4 |-> << "F", "L", "O", "A", "T", "4" >>,
     FLOAT8 |-> << "F", "L", "O", "A", "T", "8" >>,
     NUMERIC |-> << "N", "U", "M", "E", "R", "I", "C" >>,
     JSON |-> << "J", "S", "O", "N" >>,
     JSONB |-> << "J", "S", "O", "N", "B" >>,
     BOOL |-> << "B", "O", "O", "L" >>,
     int4 |-> << "i", "n", "t", "4" >>,
     uuid |-> << "u", "u", "i", "d" >>,
     OID |-> << "O", "I", "D" >>,
     text |-> << "t", "e", "x", "t" >>]

\* A value of a Rust type, as a typed read gives it: the type, then the value.
Typed(ty, v) == << ty, v >>

\* Decimal digits, and zero padding to a width.
RECURSIVE Digits(_)
Digits(n) ==
    IF n < 10 THEN << << "0", "1", "2", "3", "4", "5", "6", "7", "8", "9" >>[n + 1] >>
    ELSE Digits(n \div 10) \o Digits(n % 10)

Pad(n, width) == [i \in 1..(width - Len(Digits(n))) |-> "0"] \o Digits(n)

RECURSIVE Pow10(_)
Pow10(k) == IF k = 0 THEN 1 ELSE 10 * Pow10(k - 1)

\* chrono %Y: four digits, or a sign and at least four digits outside 0..9999.
YearText(y) ==
    IF y \in 0..9999 THEN Pad(y, 4)
    ELSE IF y < 0 THEN << "-" >> \o Pad(0 - y, 4)
    ELSE << "+" >> \o Pad(y, 4)

\* NaiveDate::format("%Y-%m-%d")
format_date(d) == YearText(d.y) \o << "-" >> \o Pad(d.m, 2) \o << "-" >> \o Pad(d.d, 2)

\* %H:%M:%S
format_time(t) == Pad(t.h, 2) \o << ":" >> \o Pad(t.mi, 2) \o << ":" >> \o Pad(t.s, 2)

\* NaiveDateTime::format("%Y-%m-%dT%H:%M:%S"): the fraction is not printed.
format_timestamp(dt) == format_date(dt) \o << "T" >> \o format_time(dt)

\* DateTime<Utc>::to_rfc3339: the fraction in 0, 3, 6 or 9 digits, offset +00:00.
to_rfc3339(dt) ==
    format_date(dt) \o << "T" >> \o format_time(dt)
    \o (IF dt.nanos = 0 THEN <<>>
        ELSE IF dt.nanos % 1000000 = 0 THEN << "." >> \o Pad(dt.nanos \div 1000000, 3)
        ELSE IF dt.nanos % 1000 = 0 THEN << "." >> \o Pad(dt.nanos \div 1000, 6)
        ELSE << "." >> \o Pad(dt.nanos, 9))
    \o << "+", "0", "0", ":", "0", "0" >>

\* Uuid as json!: the hyphenated form, lower-case hex of the 16 bytes.
HexDigits ==
    << "0", "1", "2", "3", "4", "5", "6", "7", "8", "9", "a", "b", "c", "d", "e", "f" >>

Hex(b) == << HexDigits[(b \div 16) + 1], HexDigits[(b % 16) + 1] >>

hyphenated(u) ==
    Concat([i \in 1..16 |-> Hex(u[i]) \o (IF i \in {4, 6, 8, 10} THEN << "-" >> ELSE <<>>)])

\* Decimal as json!: with the default features of rust_decimal, the string
\* of its Display form: the digits with `scale` of them after the point.
decimal_to_string(dec) ==
    LET a == IF dec.m < 0 THEN 0 - dec.m ELSE dec.m IN
    (IF dec.m < 0 THEN << "-" >> ELSE <<>>)
    \o Digits(a \div Pow10(dec.scale))
    \o (IF dec.scale > 0 THEN << "." >> \o Pad(a % Pow10(dec.scale), dec.scale) ELSE <<>>)

\* The characters of the byte strings of the model, by code point.
CharTable == { << 97, "a" >>, << 98, "b" >>, << 233, "é" >> }

Char(cp) == (CHOOSE p \in CharTable : p[1] = cp)[2]

\* The length a UTF-8 sequence has by its first byte; 0 for a byte that
\* starts none.
Utf8Width(b) ==
    IF b < 128 THEN 1
    ELSE IF b \in 194..223 THEN 2
    ELSE IF b \in 224..239 THEN 3
    ELSE IF b \in 240..244 THEN 4
    ELSE 0

\* The range of the second byte of a sequence, by its first byte.
Utf8Second(b) ==
    IF b = 224 THEN 160..191
    ELSE IF b = 237 THEN 128..159
    ELSE IF b = 240 THEN 144..191
    ELSE IF b = 244 THEN 128..143
    ELSE 128..191

Utf8CodePoint(bs) ==
    IF Len(bs) = 1 THEN bs[1]
    ELSE IF Len(bs) = 2 THEN (bs[1] - 192) * 64 + (bs[2] - 128)
    ELSE IF Len(bs) = 3 THEN (bs[1] - 224) * 4096 + (bs[2] - 128) * 64 + (bs[3] - 128)
    ELSE (bs[1] - 240) * 262144 + (bs[2] - 128) * 4096 + (bs[3] - 128) * 64 + (bs[4] - 128)

\* Mutant of from_utf8: lossy, an invalid byte becomes a replacement character.
from_utf8_Lossy(bytes) ==
    [ok |-> TRUE,
     value |-> [i \in 1..Len(bytes) |-> IF bytes[i] \in {97, 98} THEN Char(bytes[i]) ELSE "?"]]

\* std::str::from_utf8
RECURSIVE from_utf8(_)
from_utf8(bytes) ==
    IF bytes = <<>> THEN [ok |-> TRUE, value |-> <<>>]
    ELSE LET n == Utf8Width(bytes[1]) IN
         IF \/ n = 0
            \/ Len(bytes) < n
            \/ (n >= 2 /\ bytes[2] \notin Utf8Second(bytes[1]))
            \/ \E i \in 3..n : bytes[i] \notin 128..191
         THEN [ok |-> FALSE, error |-> "Utf8Error"]
         ELSE LET rest == from_utf8(SubSeq(bytes, n + 1, Len(bytes))) IN
              IF rest.ok
              THEN [ok |-> TRUE,
                    value |-> << Char(Utf8CodePoint(SubSeq(bytes, 1, n))) >> \o rest.value]
              ELSE rest

\* Row::try_get::<T, _>(i): the value when the cell holds one of type T.
try_get(cell, ty) ==
    IF cell.typed.ok /\ cell.typed.value[1] = ty
    THEN [ok |-> TRUE, value |-> cell.typed.value[2]]
    ELSE [ok |-> FALSE, error |-> "ColumnDecode"]

\* Row::try_get_raw(i)
try_get_raw(cell) == cell.raw

\* PgValueRef::as_bytes: a NULL has no bytes.
as_bytes(raw) ==
    IF raw.value = None THEN [ok |-> FALSE, error |-> "UnexpectedNull"]
    ELSE [ok |-> TRUE, value |-> raw.value[1]]

\* Result::map and Result::unwrap_or; `mapped` is the closure applied to the
\* value of res, looked at when res is Ok only.
map(res, mapped) == IF res.ok THEN [ok |-> TRUE, value |-> mapped] ELSE res

unwrap_or(res, default) == IF res.ok THEN res.value ELSE default

\* Mutant of decode_typed: a failed typed read is propagated.
decode_typed_Propagate(res) == IF res.ok THEN res ELSE [ok |-> FALSE, error |-> <<>>]

\* `.unwrap_or(Value::Null)` of a typed arm; the arm itself never fails.
decode_typed(res) == [ok |-> TRUE, value |-> unwrap_or(res, JNull)]

\* The default arm: `?` on the raw value, then the bytes as UTF-8.
decode_raw(cell) ==
    LET raw == try_get_raw(cell) IN
    IF ~raw.ok THEN [ok |-> FALSE, error |-> <<>>]
    ELSE LET bytes == as_bytes(raw.value) IN
         IF bytes.ok
         THEN LET s == from_utf8(bytes.value) IN
              IF s.ok THEN [ok |-> TRUE, value |-> JString(s.value)]
              ELSE [ok |-> TRUE, value |-> JNull]
         ELSE [ok |-> TRUE, value |-> JNull]

\* `match type_name { .. }`: Ok(value), or the error the `?` of the default
\* arm returns from get_results.
decode(type_name, cell) ==
    LET uuid == try_get(cell, "Uuid")
        string == try_get(cell, "String")
        date == try_get(cell, "NaiveDate")
        timestamp == try_get(cell, "NaiveDateTime")
        timestamptz == try_get(cell, "DateTime<Utc>")
        int2 == try_get(cell, "i16")
        int4 == try_get(cell, "i32")
        int8 == try_get(cell, "i64")
        decimal == try_get(cell, "Decimal")
        bool == try_get(cell, "bool") IN
    IF type_name = T.UUID
    THEN decode_typed(map(uuid, JString(hyphenated(uuid.value))))
    ELSE IF type_name \in {T.TEXT, T.VARCHAR, T.CHAR}
    THEN decode_typed(map(string, JString(string.value)))
    ELSE IF type_name = T.DATE
    THEN decode_typed(map(date, JString(format_date(date.value))))
    ELSE IF type_name = T.TIMESTAMP
    THEN decode_typed(map(timestamp, JString(format_timestamp(timestamp.value))))
    ELSE IF type_name = T.TIMESTAMPTZ
    THEN decode_typed(map(timestamptz, JString(to_rfc3339(timestamptz.value))))
    ELSE IF type_name = T.INT2
    THEN decode_typed(map(int2, JNumber(int2.value)))
    ELSE IF type_name = T.INT4
    THEN decode_typed(map(int4, JNumber(int4.value)))
    ELSE IF type_name = T.INT8
    THEN decode_typed(map(int8, JNumber(int8.value)))
    ELSE IF type_name \in {T.FLOAT4, T.FLOAT8, T.NUMERIC}
    THEN decode_typed(map(decimal, JString(decimal_to_string(decimal.value))))
    ELSE IF type_name \in {T.JSON, T.JSONB}
    THEN decode_typed(try_get(cell, "Value"))
    ELSE IF type_name = T.BOOL
    THEN decode_typed(map(bool, JBool(bool.value)))
    ELSE decode_raw(cell)

\* Mutant of headers_of: one header per cell of the result set.
headers_of_EveryRow(rows) ==
    Concat([r \in 1..Len(rows) |->
               [i \in 1..Len(rows[r].columns) |->
                   << rows[r].columns[i].name, rows[r].columns[i].type_name >>]])

\* The headers: the (name, type name) of the columns of the first row.
headers_of(rows) ==
    [i \in 1..Len(rows[1].columns) |->
        << rows[1].columns[i].name, rows[1].columns[i].type_name >>]

\* The inner loop over the first n columns of a row: row_data, or the error
\* of the first cell that has one.
RECURSIVE row_data(_, _)
row_data(row, n) ==
    IF n = 0 THEN [ok |-> TRUE, value |-> <<>>]
    ELSE LET before == row_data(row, n - 1) IN
         IF ~before.ok THEN before
         ELSE LET value == decode(row.columns[n].type_name, row.cells[n]) IN
              IF value.ok THEN [ok |-> TRUE, value |-> Append(before.value, value.value)]
              ELSE value

\* The outer loop over the first n rows: results.rows, or the error.
RECURSIVE results_rows(_, _)
results_rows(rows, n) ==
    IF n = 0 THEN [ok |-> TRUE, value |-> <<>>]
    ELSE LET before == results_rows(rows, n - 1) IN
         IF ~before.ok THEN before
         ELSE LET data == row_data(rows[n], Len(rows[n].columns)) IN
              IF data.ok THEN [ok |-> TRUE, value |-> Append(before.value, data.value)]
              ELSE data

\* get_results on a query whose fetch_all gave `fetch`.
get_results(fetch) ==
    IF ~fetch.ok THEN [ok |-> FALSE, error |-> fetch.error]
    ELSE IF first(fetch.value) = None
    THEN [ok |-> TRUE, value |-> [headers |-> <<>>, rows |-> <<>>]]
    ELSE LET rows == results_rows(fetch.value, Len(fetch.value)) IN
         IF rows.ok
         THEN [ok |-> TRUE, value |-> [headers |-> headers_of(fetch.value), rows |-> rows.value]]
         ELSE rows

\* What the driver gives to get_results: the outcome of fetch_all and, per
\* cell, the outcome of the typed read and of the raw read.

Uuid1 == << 18, 52, 86, 120, 154, 188, 222, 240, 1, 35, 69, 103, 137, 171, 205, 239 >>

TypeNames ==
    { T.UUID, T.TEXT, T.VARCHAR, T.CHAR, T.DATE, T.TIMESTAMP, T.TIMESTAMPTZ, T.INT2, T.INT4,
      T.INT8, T.FLOAT4, T.FLOAT8, T.NUMERIC, T.JSON, T.JSONB, T.BOOL, T.int4, T.uuid, T.OID }

\* The values a column of a type name holds, in the Rust type sqlx reads
\* them in.
TypedValues(type_name) ==
    IF type_name \in {T.UUID, T.uuid} THEN { Typed("Uuid", Uuid1) }
    ELSE IF type_name \in {T.TEXT, T.VARCHAR, T.CHAR}
    THEN { Typed("String", << "a", "é" >>), Typed("String", <<>>) }
    ELSE IF type_name = T.DATE
    THEN { Typed("NaiveDate", [y |-> 2024, m |-> 1, d |-> 2]),
           Typed("NaiveDate", [y |-> 12000, m |-> 12, d |-> 31]) }
    ELSE IF type_name = T.TIMESTAMP
    THEN { Typed("NaiveDateTime",
                 [y |-> 2024, m |-> 1, d |-> 2, h |-> 3, mi |-> 4, s |-> 5,
                  nanos |-> 500000000]) }
    ELSE IF type_name = T.TIMESTAMPTZ
    THEN { Typed("DateTime<Utc>",
                 [y |-> 2024, m |-> 1, d |-> 2, h |-> 3, mi |-> 4, s |-> 5, nanos |-> 0]),
           Typed("DateTime<Utc>",
                 [y |-> 2024, m |-> 1, d |-> 2, h |-> 3, mi |-> 4, s |-> 5, nanos |-> 1000]) }
    ELSE IF type_name = T.INT2 THEN { Typed("i16", 0 - 32768), Typed("i16", 7) }
    ELSE IF type_name \in {T.INT4, T.int4}
    THEN { Typed("i32", 42), Typed("i32", 0 - 2147483647) }
    ELSE IF type_name = T.INT8 THEN { Typed("i64", 2147483647) }
    ELSE IF type_name \in {T.FLOAT4, T.FLOAT8, T.NUMERIC}
    THEN { Typed("Decimal", [m |-> 150, scale |-> 2]),
           Typed("Decimal", [m |-> 0 - 5, scale |-> 0]) }
    ELSE IF type_name \in {T.JSON, T.JSONB}
    THEN { Typed("Value", JObject(json_object(<< << << "a" >>, JNumber(1) >> >>))),
           Typed("Value", JNull) }
    ELSE IF type_name = T.BOOL THEN { Typed("bool", TRUE), Typed("bool", FALSE) }
    ELSE {}

TypedOutcomes(type_name) ==
    { [ok |-> TRUE, value |-> v] : v \in TypedValues(type_name) }
    \cup { [ok |-> FALSE, error |-> "ColumnDecode"] }

\* Byte strings of cells: valid UTF-8 (empty, one byte, a two-byte
\* sequence) and invalid (a byte that starts nothing, a cut sequence).
ByteStrings == { <<>>, << 98 >>, << 97, 195, 169 >>, << 255 >>, << 97, 195 >> }

\* The raw read: no value reference, a NULL, or bytes.
RawOutcomes ==
    { [ok |-> FALSE, error |-> "ColumnIndexOutOfBounds"] }
    \cup { [ok |-> TRUE, value |-> [value |-> None]] }
    \cup { [ok |-> TRUE, value |-> [value |-> Some(b)]] : b \in ByteStrings }

\* A cell read as a value has bytes: a cell without a value reference, and a
\* NULL, fail the typed read too.
Cells(type_name) ==
    { cell \in [typed : TypedOutcomes(type_name), raw : RawOutcomes] :
          cell.typed.ok => (cell.raw.ok /\ cell.raw.value.value # None) }

ColumnName(i) == << "c" >> \o Digits(i)

\* Result sets of one row and one column: every type name, every cell.
OneCellFetches ==
    { << [columns |-> << [name |-> ColumnName(1), type_name |-> t] >>, cells |-> << c >>] >> :
          << t, c >> \in UNION { { << t, c >> : c \in Cells(t) } : t \in TypeNames } }

\* Larger result sets: columns of three type names, a few cells for each.
GridCells(type_name) ==
    IF type_name = T.INT4
    THEN { [typed |-> [ok |-> TRUE, value |-> Typed("i32", 42)],
            raw |-> [ok |-> TRUE, value |-> [value |-> Some(<< 98 >>)]]],
           [typed |-> [ok |-> FALSE, error |-> "ColumnDecode"],
            raw |-> [ok |-> TRUE, value |-> [value |-> None]]] }
    ELSE IF type_name = T.TEXT
    THEN { [typed |-> [ok |-> TRUE, value |-> Typed("String", << "a", "é" >>)],
            raw |-> [ok |-> TRUE, value |-> [value |-> Some(<< 97, 195, 169 >>)]]],
           [typed |-> [ok |-> FALSE, error |-> "ColumnDecode"],
            raw |-> [ok |-> TRUE, value |-> [value |-> None]]] }
    ELSE { [typed |-> [ok |-> FALSE, error |-> "ColumnDecode"],
            raw |-> [ok |-> FALSE, error |-> "ColumnIndexOutOfBounds"]],
           [typed |-> [ok |-> FALSE, error |-> "ColumnDecode"],
            raw |-> [ok |-> TRUE, value |-> [value |-> Some(<< 98 >>)]]],
           [typed |-> [ok |-> FALSE, error |-> "ColumnDecode"],
            raw |-> [ok |-> TRUE, value |-> [value |-> Some(<< 255 >>)]]] }

\* The rows of one statement have the same columns.
GridRows(type_names) ==
    { [columns |-> [i \in DOMAIN type_names |->
                         [name |-> ColumnName(i), type_name |-> type_names[i]]], cells |-> cs] :
          cs \in { cells \in [DOMAIN type_names ->
                                 UNION { GridCells(t) : t \in { T.INT4, T.TEXT, T.OID } }] :
                      \A i \in DOMAIN type_names : cells[i] \in GridCells(type_names[i]) } }

GridFetches ==
    UNION { UNION { [1..m -> GridRows(type_names)] : m \in 1..MaxRows } :
                type_names \in UNION { [1..n -> { T.INT4, T.TEXT, T.OID }] : n \in 1..MaxCols } }

DbError == << "d", "b" >>

\* fetch_all: an error, no row, or rows.
Fetches ==
    { [ok |-> FALSE, error |-> DbError], [ok |-> TRUE, value |-> <<>>] }
    \cup { [ok |-> TRUE, value |-> rows] : rows \in OneCellFetches \cup GridFetches }

GetResults ==
    /\ fetched = None
    /\ \E fetch \in Fetches :
          /\ fetched' = Some([op |-> "get_results", fetch |-> fetch])
          /\ returned' = Some(get_results(fetch))
    /\ UNCHANGED << vars, twin, session >>

\* -------------------------------------------- PostgresDatabase: get_schema

MaxCatalog == 2

EmptyMap == [k \in {} |-> <<>>]

\* HashMap: `entry(key).or_insert(Vec::new()).push(item)`, and the same with
\* or_default.
entry_push(m, key, item) ==
    IF key \in DOMAIN m THEN [m EXCEPT ![key] = Append(@, item)]
    ELSE [k \in DOMAIN m \cup {key} |-> IF k = key THEN << item >> ELSE m[k]]

\* Mutant of schema_map: `insert(key, vec![item])` for the entry.
RECURSIVE schema_map_Insert(_, _)
schema_map_Insert(column_map, n) ==
    IF n = 0 THEN EmptyMap
    ELSE LET m == schema_map_Insert(column_map, n - 1)
             key == column_map[n][1] IN
         [k \in DOMAIN m \cup {key} |->
             IF k = key THEN << << column_map[n][2], column_map[n][3] >> >> ELSE m[k]]

\* The loop over the first n (table_name, column_name, column_type) rows.
RECURSIVE schema_map(_, _)
schema_map(column_map, n) ==
    IF n = 0 THEN EmptyMap
    ELSE entry_push(schema_map(column_map, n - 1), column_map[n][1],
                    << column_map[n][2], column_map[n][3] >>)

\* format!("{}.{}", table, column)
format_key(table, column) == table \o << "." >> \o column

\* Mutant of fk_map: keyed by the referencing column.
RECURSIVE fk_map_Forward(_, _)
fk_map_Forward(fk_rows, n) ==
    IF n = 0 THEN EmptyMap
    ELSE LET row == fk_rows[n]
             referenced_key == format_key(row.referenced_table, row.referenced_column)
             referencing_key == format_key(row.referencing_table, row.referencing_column) IN
         entry_push(fk_map_Forward(fk_rows, n - 1), referencing_key, referenced_key)

\* The loop over the first n foreign-key rows.
RECURSIVE fk_map(_, _)
fk_map(fk_rows, n) ==
    IF n = 0 THEN EmptyMap
    ELSE LET row == fk_rows[n]
             referenced_key == format_key(row.referenced_table, row.referenced_column)
             referencing_key == format_key(row.referencing_table, row.referencing_column) IN
         entry_push(fk_map(fk_rows, n - 1), referenced_key, referencing_key)

CouldNotGetColumns == << "C", "o", "u", "l", "d", " ", "n", "o", "t", " ", "g", "e", "t", " ", "c", "o", "l", "u", "m", "n", "s" >>

CouldNotGetForeignKeyInfo == << "C", "o", "u", "l", "d", " ", "n", "o", "t", " ", "g", "e", "t", " ", "f", "o", "r", "e", "i", "g", "n", " ", "k", "e", "y", " ", "i", "n", "f", "o" >>

\* Mutant of get_schema: the tables are returned when the second query fails.
get_schema_Partial(catalog) ==
    IF ~catalog.columns.ok THEN [ok |-> FALSE, error |-> CouldNotGetColumns]
    ELSE [ok |-> TRUE,
          value |-> << schema_map(catalog.columns.value, Len(catalog.columns.value)),
                       IF catalog.fk_rows.ok
                       THEN fk_map(catalog.fk_rows.value, Len(catalog.fk_rows.value))
                       ELSE EmptyMap >>]

\* The catalog queries get_schema makes, in order: `?` returns before the
\* second one when the first failed.
queries_issued(catalog) ==
    IF ~catalog.columns.ok THEN << "columns" >> ELSE << "columns", "foreign keys" >>

\* get_schema on a catalog whose two queries gave `catalog.columns` and
\* `catalog.fk_rows`; the second query is made after the first succeeded.
get_schema(catalog) ==
    IF ~catalog.columns.ok THEN [ok |-> FALSE, error |-> CouldNotGetColumns]
    ELSE IF ~catalog.fk_rows.ok THEN [ok |-> FALSE, error |-> CouldNotGetForeignKeyInfo]
    ELSE [ok |-> TRUE,
          value |-> << schema_map(catalog.columns.value, Len(catalog.columns.value)),
                       fk_map(catalog.fk_rows.value, Len(catalog.fk_rows.value)) >>]

\* What the catalog gives: tables o and c, their columns, foreign keys
\* between them (two on one referenced column, one of a table on itself).
ColumnRows ==
    { << << "o" >>, << "i" >>, T.int4 >>,
      << << "o" >>, << "k" >>, T.int4 >>,
      << << "c" >>, << "i" >>, T.int4 >>,
      << << "c" >>, << "n" >>, T.text >> }

FkRow(t1, c1, t2, c2) ==
    [referencing_table |-> t1, referencing_column |-> c1,
     referenced_table |-> t2, referenced_column |-> c2]

FkRows ==
    { FkRow(<< "o" >>, << "k" >>, << "c" >>, << "i" >>),
      FkRow(<< "o" >>, << "i" >>, << "c" >>, << "i" >>),
      FkRow(<< "c" >>, << "n" >>, << "o" >>, << "i" >>),
      FkRow(<< "c" >>, << "n" >>, << "c" >>, << "i" >>) }

SeqsUpTo(S, n) == UNION { [1..k -> S] : k \in 0..n }

QueryOutcomes(S) ==
    { [ok |-> FALSE, error |-> DbError] }
    \cup { [ok |-> TRUE, value |-> rows] : rows \in SeqsUpTo(S, MaxCatalog) }

Catalogs == [columns : QueryOutcomes(ColumnRows), fk_rows : QueryOutcomes(FkRows)]

GetSchema ==
    /\ fetched = None
    /\ \E catalog \in Catalogs :
          /\ fetched' = Some([op |-> "get_schema", catalog |-> catalog,
                               issued |-> queries_issued(catalog)])
          /\ returned' = Some(get_schema(catalog))
    /\ UNCHANGED << vars, twin, session >>

\* The caller is done with what the call returned.
DropResult ==
    /\ fetched # None
    /\ fetched' = None
    /\ returned' = None
    /\ UNCHANGED << vars, twin, session >>

NextDb ==
    \/ GetResults
    \/ GetSchema
    \/ DropResult

SpecDb == Init /\ [][NextDb]_allvars

\* -------------------------------------------------- claims on get_results

IsGetResults == fetched # None /\ fetched[1].op = "get_results"

\* The rows fetch_all gave to the latest get_results (none when it failed).
FetchedRows == IF fetched[1].fetch.ok THEN fetched[1].fetch.value ELSE <<>>

\* The places of the cells of the fetched rows.
CellPlaces == { << r, c >> \in (1..MaxRows + 1) \X (1..MaxCols + 1) :
                   r <= Len(FetchedRows) /\ c <= Len(FetchedRows[r].cells) }

TypeNameAt(p) == FetchedRows[p[1]].columns[p[2]].type_name
CellAt(p) == FetchedRows[p[1]].cells[p[2]]

\* ---------------------------------------------------------------------- C14

\* C14: whatever the type names and the outcomes of reading the cells,
\* get_results returns the result set when fetch_all succeeded: no cell
\* makes the call an error.
C14_DecodingNeverAborts ==
    (IsGetResults /\ fetched[1].fetch.ok) => returned[1].ok

\* ---------------------------------------------------------------------- C15

\* The type names the dispatch table has a class for.
RecognizedTypeNames ==
    { T.UUID, T.TEXT, T.VARCHAR, T.CHAR, T.DATE, T.TIMESTAMP, T.TIMESTAMPTZ, T.INT2, T.INT4,
      T.INT8, T.FLOAT4, T.FLOAT8, T.NUMERIC, T.JSON, T.JSONB, T.BOOL }

\* The fetched rows with the typed read of the cell at p succeeding.
Healed(p) ==
    [FetchedRows EXCEPT ![p[1]].cells[p[2]].typed =
        [ok |-> TRUE, value |-> CHOOSE v \in TypedValues(TypeNameAt(p)) : TRUE]]

\* C15: a cell of a recognized type name whose typed read fails is Null, and
\* nothing else changes: the call returns as it does when that read
\* succeeds, with the same headers, as many rows, in every row a value per
\* column, and the same value in every other cell.
C15_FailedReadIsNullForThatCellOnly ==
    IsGetResults =>
        \A p \in CellPlaces :
            (TypeNameAt(p) \in RecognizedTypeNames /\ ~CellAt(p).typed.ok) =>
                LET healed == get_results([ok |-> TRUE, value |-> Healed(p)]) IN
                /\ returned[1].ok = healed.ok
                /\ returned[1].ok =>
                      /\ returned[1].value.headers = healed.value.headers
                      /\ Len(returned[1].value.rows) = Len(FetchedRows)
                      /\ \A r \in DOMAIN FetchedRows :
                            Len(returned[1].value.rows[r]) = Len(FetchedRows[r].columns)
                      /\ returned[1].value.rows[p[1]][p[2]] = JNull
                      /\ \A q \in CellPlaces :
                            q # p => returned[1].value.rows[q[1]][q[2]]
                                     = healed.value.rows[q[1]][q[2]]

C15_Witness ==
    /\ IsGetResults
    /\ returned[1].ok
    /\ Len(FetchedRows) = 2
    /\ Len(FetchedRows[1].cells) = 2
    /\ TypeNameAt(<< 1, 1 >>) = T.INT4
    /\ ~CellAt(<< 1, 1 >>).typed.ok
    /\ returned[1].value.rows[1] = << JNull, JString(<< "a", "é" >>) >>
    /\ returned[1].value.rows[2] = << JNumber(42), JString(<< "a", "é" >>) >>

\* ---------------------------------------------------------------------- C16

LowerCase ==
    << "a", "b", "c", "d", "e", "f", "g", "h", "i", "j", "k", "l", "m",
       "n", "o", "p", "q", "r", "s", "t", "u", "v", "w", "x", "y", "z" >>

UpperCase ==
    << "A", "B", "C", "D", "E", "F", "G", "H", "I", "J", "K", "L", "M",
       "N", "O", "P", "Q", "R", "S", "T", "U", "V", "W", "X", "Y", "Z" >>

ToUpper(s) ==
    [i \in DOMAIN s |->
        IF \E k \in DOMAIN LowerCase : LowerCase[k] = s[i]
        THEN UpperCase[CHOOSE k \in DOMAIN LowerCase : LowerCase[k] = s[i]]
        ELSE s[i]]

\* The fetched rows with every type name spelled in upper case.
UpperSpelled ==
    [r \in DOMAIN FetchedRows |->
        [FetchedRows[r] EXCEPT !.columns =
            [i \in DOMAIN @ |-> [@[i] EXCEPT !.type_name = ToUpper(@)]]]]

\* C16: the spelling of a type name in upper or lower case does not change
\* the rule: get_results gives the same values as with the type names in
\* upper case.
C16_DispatchIsCaseInsensitive ==
    (IsGetResults /\ fetched[1].fetch.ok) =>
        LET upper == get_results([ok |-> TRUE, value |-> UpperSpelled]) IN
        /\ returned[1].ok = upper.ok
        /\ returned[1].ok /\ FetchedRows # <<>> =>
              returned[1].value.rows = upper.value.rows

\* ---------------------------------------------------------------------- C17

\* The UTF-8 bytes of a string of the characters of the model.
CodePoint(ch) == (CHOOSE p \in CharTable : p[2] = ch)[1]

Utf8Encode(s) ==
    Concat([i \in DOMAIN s |->
               IF CodePoint(s[i]) < 128 THEN << CodePoint(s[i]) >>
               ELSE << 192 + (CodePoint(s[i]) \div 64), 128 + (CodePoint(s[i]) % 64) >>])

\* The strings of up to three of these characters.
ShortStrings == UNION { [1..k -> { p[2] : p \in CharTable }] : k \in 0..3 }

\* The 16 bytes a hyphenated UUID string stands for.
HexValue(ch) == (CHOOSE k \in DOMAIN HexDigits : HexDigits[k] = ch) - 1

ParseHyphenated(s) ==
    LET hex == SelectSeq(s, LAMBDA ch : ch # "-") IN
    [i \in 1..16 |-> 16 * HexValue(hex[2 * i - 1]) + HexValue(hex[2 * i])]

\* C17: when the read succeeds, an INT2, INT4 or INT8 cell is the Number of
\* the integer, a BOOL cell the Boolean, a TEXT, VARCHAR or CHAR cell the
\* String read, a UUID cell the 36-character String of that UUID, a DATE,
\* TIMESTAMP or TIMESTAMPTZ cell a String, a JSON or JSONB cell the Document
\* read; a cell of any other type name is the String whose UTF-8 bytes are
\* the raw bytes, and Null when the bytes are the UTF-8 of no string.
C17_DispatchTable ==
    (IsGetResults /\ returned[1].ok) =>
        \A p \in CellPlaces :
            LET t == TypeNameAt(p)
                cell == CellAt(p)
                v == returned[1].value.rows[p[1]][p[2]] IN
            /\ (t \in {T.INT2, T.INT4, T.INT8} /\ cell.typed.ok) =>
                   v = JNumber(cell.typed.value[2])
            /\ (t = T.BOOL /\ cell.typed.ok) => v = JBool(cell.typed.value[2])
            /\ (t \in {T.TEXT, T.VARCHAR, T.CHAR} /\ cell.typed.ok) =>
                   v = JString(cell.typed.value[2])
            /\ (t = T.UUID /\ cell.typed.ok) =>
                   /\ v.kind = "String"
                   /\ Len(v.s) = 36
                   /\ ParseHyphenated(v.s) = cell.typed.value[2]
            /\ (t \in {T.DATE, T.TIMESTAMP, T.TIMESTAMPTZ} /\ cell.typed.ok) =>
                   v.kind = "String" /\ v.s # <<>>
            /\ (t \in {T.JSON, T.JSONB} /\ cell.typed.ok) => v = cell.typed.value[2]
            /\ (t \notin RecognizedTypeNames /\ cell.raw.ok /\ cell.raw.value.value # None) =>
                   LET bytes == cell.raw.value.value[1] IN
                   IF \E s \in ShortStrings : Utf8Encode(s) = bytes
                   THEN v.kind = "String" /\ Utf8Encode(v.s) = bytes
                   ELSE v = JNull

C17_Witness ==
    /\ IsGetResults
    /\ returned[1].ok
    /\ Len(FetchedRows) = 1
    /\ TypeNameAt(<< 1, 1 >>) = T.OID
    /\ CellAt(<< 1, 1 >>).raw = [ok |-> TRUE, value |-> [value |-> Some(<< 97, 195, 169 >>)]]
    /\ returned[1].value.rows = << << JString(<< "a", "é" >>) >> >>

\* ---------------------------------------------------------------------- C18

IsGetSchema == fetched # None /\ fetched[1].op = "get_schema"

\* The text "table.column".
Dotted(table, column) == Concat(<< table, << "." >>, column >>)

\* ---------------------------------------------------------------------- C19

\* The referencing "T1.C1" of the tuples that reference key, in arrival order.
RECURSIVE PointingAt(_, _)
PointingAt(rows, key) ==
    IF rows = <<>> THEN <<>>
    ELSE (IF Dotted(Head(rows).referenced_table, Head(rows).referenced_column) = key
          THEN << Dotted(Head(rows).referencing_table, Head(rows).referencing_column) >>
          ELSE <<>>)
         \o PointingAt(Tail(rows), key)

RECURSIVE ColumnsOf(_, _)
ColumnsOf(rows, table) ==
    IF rows = <<>> THEN <<>>
    ELSE (IF Head(rows)[1] = table THEN << << Head(rows)[2], Head(rows)[3] >> >> ELSE <<>>)
         \o ColumnsOf(Tail(rows), table)

\* C20: tables has a key exactly for the table names of the column rows,
\* and under it the (column name, type name) of the rows of that table, in
\* arrival order, each row once.
C20_ColumnsGroupedByTable ==
    (IsGetSchema /\ returned[1].ok) =>
        LET rows == fetched[1].catalog.columns.value
            tables == returned[1].value[1] IN
        /\ DOMAIN tables = { rows[i][1] : i \in DOMAIN rows }
        /\ \A name \in DOMAIN tables : tables[name] = ColumnsOf(rows, name)

C20_Witness ==
    /\ IsGetSchema
    /\ returned[1].ok
    /\ DOMAIN returned[1].value[1] = { << "o" >> }
    /\ returned[1].value[1][<< "o" >>] = << << << "k" >>, T.int4 >>, << << "i" >>, T.int4 >> >>

\* ------------------------------------------------------- ui: main, its texts

\* The texts of main: the name of its tool and the key of its argument, the
\* tool results that are no query result, the text serde_json gives for
\* arguments that end inside an object, the two parts of the system prompt
\* around the schema, and the frame of a DatabaseResult under {:?}.  Tool
\* names are TLA+ strings in a tool call; Lit[name] is their text.
Lit ==
    [execute_query |->
        << "e", "x", "e", "c", "u", "t", "e", "_", "q", "u", "e", "r", "y" >>,
     other_tool |->
        << "o", "t", "h", "e", "r", "_", "t", "o", "o", "l" >>,
     query |->
        << "q", "u", "e", "r", "y" >>,
     unknown_tool |->
        << "U", "n", "k", "n", "o", "w", "n", " ", "t", "o", "o", "l", ":", " " >>,
     parsing |->
        << "E", "r", "r", "o", "r", " ", "p", "a", "r", "s", "i", "n", "g", " ", "a", "r", "g",
           "u", "m", "e", "n", "t", "s", ":", " " >>,
     eof_object |->
        << "E", "O", "F", " ", "w", "h", "i", "l", "e", " ", "p", "a", "r", "s", "i", "n", "g",
           " ", "a", "n", " ", "o", "b", "j", "e", "c", "t", " ", "a", "t", " ", "l", "i", "n",
           "e", " ", "1", " ", "c", "o", "l", "u", "m", "n", " ", "1" >>,
     no_query |->
        << "E", "r", "r", "o", "r", ":", " ", "N", "o", " ", "q", "u", "e", "r", "y", " ", "p",
           "a", "r", "a", "m", "e", "t", "e", "r", " ", "p", "r", "o", "v", "i", "d", "e",
           "d" >>,
     executing |->
        << "E", "r", "r", "o", "r", " ", "e", "x", "e", "c", "u", "t", "i", "n", "g", " ", "q",
           "u", "e", "r", "y", ":", " " >>,
     prompt_head |->
        << NL, "Y", "o", "u", " ", "a", "r", "e", " ", "a", " ", "d", "a", "t", "a", "b", "a",
           "s", "e", " ", "e", "x", "p", "e", "r", "t", " ", "a", "n", "d", " ", "y", "o", "u",
           " ", "h", "a", "v", "e", " ", "b", "e", "e", "n", " ", "t", "a", "s", "k", "e", "d",
           " ", "a", "t", " ", "h", "e", "l", "p", "i", "n", "g", " ", "w", "i", "t", "h", " ",
           "d", "a", "t", "a", "b", "a", "s", "e", " ", "q", "u", "e", "r", "i", "e", "s", " ",
           "a", "s", " ", "w", "e", "l", "l", NL, "a", "s", " ", "a", "n", "a", "l", "y", "s",
           "i", "n", "g", " ", "r", "e", "s", "u", "l", "t", "s", ".", " ", "Y", "o", "u", " ",
           "a", "r", "e", " ", "c", "u", "r", "r", "e", "n", "t", "l", "y", " ", "w", "o", "r",
           "k", "i", "n", "g", " ", "w", "i", "t", "h", " ", "a", " ", "p", "o", "s", "t", "g",
           "r", "e", "s", " ", "d", "a", "t", "a", "b", "a", "s", "e", " ", "t", "h", "a", "t",
           " ", "h", "a", "s", " ", "t", "h", "e", " ", "f", "o", "l", "l", "o", "w", "i", "n",
           "g", NL, "s", "c", "h", "e", "m", "a", " " >>,
     prompt_tail |->
        << ".", " ", "T", "h", "e", " ", "s", "c", "h", "e", "m", "a", " ", "c", "o", "n", "s",
           "i", "s", "t", "s", " ", "o", "f", " ", "t", "a", "b", "l", "e", " ", "n", "a", "m",
           "e", "s", " ", "a", "n", "d", " ", "c", "o", "l", "u", "m", "n", "s", ",", NL, "a",
           "s", " ", "w", "e", "l", "l", " ", "a", "s", " ", "r", "e", "f", "e", "r", "e", "n",
           "c", "e", "s", " ", "(", "f", "r", "o", "m", " ", "t", "a", "b", "l", "e", ".", "c",
           "o", "l", " ", "=", ">", " ", "[", "t", "a", "b", "l", "e", ".", "c", "o", "l", "]",
           ")" >>,
     result |->
        << "D", "a", "t", "a", "b", "a", "s", "e", "R", "e", "s", "u", "l", "t", " ", "{", " ",
           "h", "e", "a", "d", "e", "r", "s", ":", " " >>,
     rows |->
        << ",", " ", "r", "o", "w", "s", ":", " " >>]

\* format!("{results:?}"): derive(Debug) of DatabaseResult, Debug of Vec, of
\* tuples, of str and of serde_json::Value.
debug_results(results) ==
    LET RECURSIVE Join(_)
        Join(items) ==
            IF items = <<>> THEN <<>>
            ELSE IF Len(items) = 1 THEN items[1]
            ELSE items[1] \o << ",", " " >> \o Join(Tail(items))
        List(items) == << "[" >> \o Join(items) \o << "]" >>
        RECURSIVE Value(_)
        Value(v) ==
            CASE v.kind = "Null" -> << "N", "u", "l", "l" >>
              [] v.kind = "Bool" ->
                    << "B", "o", "o", "l", "(" >>
                    \o (IF v.b THEN << "t", "r", "u", "e" >> ELSE << "f", "a", "l", "s", "e" >>)
                    \o << ")" >>
              [] v.kind = "Number" ->
                    << "N", "u", "m", "b", "e", "r", "(" >>
                    \o (IF v.n < 0 THEN << "-" >> \o Digits(0 - v.n) ELSE Digits(v.n))
                    \o << ")" >>
              [] v.kind = "String" ->
                    << "S", "t", "r", "i", "n", "g", "(" >> \o Quoted(v.s) \o << ")" >>
              [] v.kind = "Object" ->
                    << "O", "b", "j", "e", "c", "t", " ", "{" >>
                    \o Join([i \in DOMAIN v.members |->
                                Quoted(v.members[i].key) \o << ":", " " >>
                                \o Value(v.members[i].value)])
                    \o << "}" >>
        Header(h) == << "(" >> \o Quoted(h[1]) \o << ",", " " >> \o Quoted(h[2]) \o << ")" >>
    IN  Lit.result
        \o List([i \in DOMAIN results.headers |-> Header(results.headers[i])])
        \o Lit.rows
        \o List([i \in DOMAIN results.rows |->
                    List([j \in DOMAIN results.rows[i] |-> Value(results.rows[i][j])])])
        \o << " ", "}" >>

\* The system prompt of main: the text around {schema:?}, the Debug of the
\* pair of HashMaps.  A HashMap is walked in an order of its own: tables and
\* references are the orders in which the keys of the two maps come.
system_prompt(schema, tables, references) ==
    LET RECURSIVE Join(_)
        Join(items) ==
            IF items = <<>> THEN <<>>
            ELSE IF Len(items) = 1 THEN items[1]
            ELSE items[1] \o << ",", " " >> \o Join(Tail(items))
        List(items) == << "[" >> \o Join(items) \o << "]" >>
        Pair(p) == << "(" >> \o Quoted(p[1]) \o << ",", " " >> \o Quoted(p[2]) \o << ")" >>
        Columns(cols) == List([i \in DOMAIN cols |-> Pair(cols[i])])
        Keys(keys) == List([i \in DOMAIN keys |-> Quoted(keys[i])])
    IN  Lit.prompt_head
        \o << "(", "{" >>
        \o Join([i \in DOMAIN tables |->
                    Quoted(tables[i]) \o << ":", " " >> \o Columns(schema[1][tables[i]])])
        \o << "}", ",", " ", "{" >>
        \o Join([i \in DOMAIN references |->
                    Quoted(references[i]) \o << ":", " " >> \o Keys(schema[2][references[i]])])
        \o << "}", ")" >>
        \o Lit.prompt_tail

\* ------------------------------------------------- ui: the collaborators

\* What the collaborators of main give in the model.  responses: what comes
\* on the stream of a prompt, a text or one of four tool calls: a query, an
\* unknown tool, execute_query without "query" (under the id of the first
\* call: the model's ids need not differ) and arguments that are no JSON.
\* continuations: what comes on the stream of a tool result.  fetches: what
\* the database gives for a query.  catalogs: what it gives for the schema.
LoopInputs ==
    [responses |->
        { Chunk(<< Choice(Some(<< "a" >>), None) >>),
          Chunk(<< Choice(None, Some(<< Call1 >>)) >>),
          Chunk(<< Choice(None, Some(<< Call2 >>)) >>),
          Chunk(<< Choice(None, Some(<< CallResponse(<< "c", "1" >>, "execute_query",
                                                      << "{", "}" >>) >>)) >>),
          Chunk(<< Choice(None, Some(<< CallResponse(<< "c", "4" >>, "execute_query",
                                                      << "{" >>) >>)) >>) },
     continuations |->
        { Chunk(<< Choice(Some(<< "a" >>), None) >>),
          Chunk(<< Choice(None, Some(<< Call1 >>)) >>) },
     fetches |->
        { [ok |-> FALSE, error |-> DbError],
          [ok |-> TRUE,
           value |-> << [columns |-> << [name |-> ColumnName(1), type_name |-> T.INT4] >>,
                         cells |-> << [typed |-> [ok |-> TRUE, value |-> Typed("i32", 42)],
                                       raw |-> [ok |-> TRUE,
                                                value |-> [value |-> Some(<< 98 >>)]]] >>] >>] },
     catalogs |->
        { [columns |-> [ok |-> FALSE, error |-> DbError],
           fk_rows |-> [ok |-> TRUE, value |-> <<>>]],
          [columns |-> [ok |-> TRUE, value |-> <<>>],
           fk_rows |-> [ok |-> TRUE, value |-> <<>>]],
          [columns |-> [ok |-> TRUE,
                        value |-> << << << "o" >>, << "k" >>, T.int4 >>,
                                     << << "c" >>, << "i" >>, T.int4 >> >>],
           fk_rows |-> [ok |-> TRUE,
                        value |-> << FkRow(<< "o" >>, << "k" >>, << "c" >>, << "i" >>) >>]] }]

\* ------------------------------------------------------------- ui: main

\* The body of the for loop up to add_tool_result: the text given for a
\* tool call, and Some(query) when the database was asked.
dispatch(tool_call, fetch) ==
    IF tool_call.name # "execute_query"
    THEN [text |-> Lit.unknown_tool \o Lit[tool_call.name], query |-> None]
    ELSE LET args == from_str(tool_call.arguments) IN
         IF ~args.ok THEN [text |-> Lit.parsing \o Lit.eof_object, query |-> None]
         ELSE LET arg == IF args.val.kind = "Object"
                         THEN MapGet(args.val.members, Lit.query) ELSE None IN
              IF arg # None /\ arg[1].kind = "String"
              THEN LET results == get_results(fetch) IN
                   [text |-> IF results.ok THEN debug_results(results.value)
                             ELSE Lit.executing \o results.error,
                    query |-> Some(arg[1].s)]
              ELSE [text |-> Lit.no_query, query |-> None]

\* main starts: LLM::new has returned.
InitLoop ==
    /\ history = <<>>
    /\ tools = <<>>
    /\ pc = "idle"
    /\ full_response = <<>>
    /\ tool_calls = <<>>
    /\ request = None
    /\ events = <<>>
    /\ result = None
    /\ pulled = 0
    /\ sawError = FALSE
    /\ call = NoCall
    /\ toolLog = <<>>
    /\ nSys = 0
    /\ nOk = 0
    /\ nErr = 0
    /\ twin = NoTwin
    /\ fetched = None
    /\ returned = None
    /\ session = [NoSession EXCEPT !.at = "start"]

\* llm.add_tool(query_tool())
MainAddTool ==
    /\ session.at = "start"
    /\ add_tool(query_tool)
    /\ session' = [session EXCEPT !.at = "added"]
    /\ UNCHANGED << twin, fetched, returned >>

\* database.get_schema().await.unwrap(): an Err ends main in a panic.
MainGetSchema ==
    /\ session.at = "added"
    /\ \E catalog \in LoopInputs.catalogs :
          /\ fetched' = Some([op |-> "get_schema", catalog |-> catalog,
                               issued |-> queries_issued(catalog)])
          /\ returned' = Some(get_schema(catalog))
          /\ session' = [session EXCEPT
                            !.at = IF get_schema(catalog).ok THEN "schema" ELSE "panicked"]
    /\ UNCHANGED << vars, twin >>

\* llm.set_system_prompt(format!(...)), with the schema just read.
MainSetSystemPrompt ==
    /\ session.at = "schema"
    /\ LET schema == returned[1].value
           Orders(keys) == { order \in [1..Cardinality(keys) -> keys] :
                                \A i, j \in DOMAIN order : i # j => order[i] # order[j] } IN
       \E tables \in Orders(DOMAIN schema[1]), references \in Orders(DOMAIN schema[2]) :
           set_system_prompt(system_prompt(schema, tables, references))
    /\ session' = [session EXCEPT !.at = "input"]
    /\ UNCHANGED << twin, fetched, returned >>

\* Mutant of MainPrompt: the system prompt is set again with every prompt.
MainPrompt_SystemEachTime ==
    /\ session.at = "input"
    /\ \E prompt \in { p \in Prompts : p # <<>> } :
          set_system_prompt(prompt)
    /\ UNCHANGED others

\* Input::interact gives a prompt, which the validator lets through when it
\* is not empty, and stream_completion is called with it; when the stream is
\* refused the Err is printed and the next prompt is read.
MainPrompt ==
    /\ session.at = "input"
    /\ \E prompt \in { p \in Prompts : p # <<>> }, opened \in BOOLEAN :
          /\ stream_completion(prompt, opened)
          /\ session' = [session EXCEPT !.at = IF opened THEN "streaming" ELSE "input",
                                        !.list = <<>>, !.k = 0, !.fed = <<>>,
                                        !.queries = <<>>]
    /\ UNCHANGED << twin, fetched, returned >>

\* One response of the prompt's stream.  A tool call comes only while the
\* session has room for the answers to all the calls of the stream.
MainStreamNext ==
    /\ session.at = "streaming"
    /\ \E resp \in LoopInputs.responses :
          /\ \/ first(resp.choices)[1].delta.tool_calls = None
             \/ Size + 1 + 2 * (Len(tool_calls) + 1) <= MaxLoopSize
          /\ stream_completion_next(resp)
    /\ UNCHANGED others

\* stream_completion returns: `Ok(tool_calls) if !tool_calls.is_empty()`
\* enters the for loop, an empty list reads the next prompt.
MainStreamEnd ==
    /\ session.at = "streaming"
    /\ stream_completion_end
    /\ session' = [session EXCEPT
                      !.at = IF tool_calls # <<>> THEN "dispatch" ELSE "input",
                      !.list = tool_calls,
                      !.k = IF tool_calls # <<>> THEN 1 ELSE 0,
                      !.emitted = @ + Len(tool_calls)]
    /\ UNCHANGED << twin, fetched, returned >>

\* Mutant of MainDispatch: the for loop ends when add_tool_result fails.
MainDispatch_BreakOnErr ==
    /\ session.at = "dispatch"
    /\ \E fetch \in LoopInputs.fetches, opened \in BOOLEAN :
          \E tool_call \in { session.list[session.k] } :
          \E tool_result \in { dispatch(tool_call, fetch) } :
          /\ add_tool_result(tool_call.id, tool_result.text, opened)
          /\ IF tool_result.query # None
             THEN /\ fetched' = Some([op |-> "get_results", fetch |-> fetch])
                  /\ returned' = Some(get_results(fetch))
             ELSE UNCHANGED << fetched, returned >>
          /\ session' =
                [session EXCEPT
                    !.at = IF opened THEN "feeding" ELSE "input",
                    !.k = IF opened \/ session.k = Len(session.list) THEN @ ELSE @ + 1,
                    !.fed = Append(@, [id |-> tool_call.id, res |-> tool_result.text,
                                       failed |-> ~opened]),
                    !.queries = IF tool_result.query # None
                                THEN Append(@, [k |-> session.k,
                                                query |-> tool_result.query[1]])
                                ELSE @,
                    !.answered = @ + 1]
    /\ UNCHANGED twin

\* One pass of the for loop up to the opening of the stream of
\* add_tool_result: the tool call is dispatched, which asks the database
\* when it is a query, and its result is given to add_tool_result.  When the
\* stream is refused the Err is printed and the for loop goes on.
MainDispatch ==
    /\ session.at = "dispatch"
    /\ \E fetch \in LoopInputs.fetches, opened \in BOOLEAN :
          \E tool_call \in { session.list[session.k] } :
          \E tool_result \in { dispatch(tool_call, fetch) } :
          /\ add_tool_result(tool_call.id, tool_result.text, opened)
          /\ IF tool_result.query # None
             THEN /\ fetched' = Some([op |-> "get_results", fetch |-> fetch])
                  /\ returned' = Some(get_results(fetch))
             ELSE UNCHANGED << fetched, returned >>
          /\ session' =
                [session EXCEPT
                    !.at = IF opened THEN "feeding"
                           ELSE IF session.k = Len(session.list) THEN "input"
                           ELSE "dispatch",
                    !.k = IF opened \/ session.k = Len(session.list) THEN @ ELSE @ + 1,
                    !.fed = Append(@, [id |-> tool_call.id, res |-> tool_result.text,
                                       failed |-> ~opened]),
                    !.queries = IF tool_result.query # None
                                THEN Append(@, [k |-> session.k,
                                                query |-> tool_result.query[1]])
                                ELSE @,
                    !.answered = @ + 1]
    /\ UNCHANGED twin

\* One response of the tool result's stream.  A tool call comes only while
\* the session has room for the answers to it and to the rest of the list.
MainFeedNext ==
    /\ session.at = "feeding"
    /\ \E resp \in LoopInputs.continuations :
          /\ \/ first(resp.choices)[1].delta.tool_calls = None
             \/ Size + 1 + 2 * (Len(session.list) - session.k)
                  + 2 * (Len(tool_calls) + 1) <= MaxLoopSize
          /\ add_tool_result_next(resp)
    /\ UNCHANGED others

\* add_tool_result returns: `if let Err(e) = ...` looks at an Err only, the
\* list of tool calls of an Ok goes nowhere, and the for loop goes on.
MainFeedEnd ==
    /\ session.at = "feeding"
    /\ add_tool_result_end
    /\ session' = [session EXCEPT
                      !.at = IF session.k = Len(session.list) THEN "input" ELSE "dispatch",
                      !.k = IF session.k = Len(session.list) THEN @ ELSE @ + 1,
                      !.emitted = @ + Len(tool_calls)]
    /\ UNCHANGED << twin, fetched, returned >>

\* Input::interact gives an Err: the while loop ends and main returns.
MainQuit ==
    /\ session.at = "input"
    /\ session' = [session EXCEPT !.at = "quit"]
    /\ UNCHANGED << vars, twin, fetched, returned >>

NextLoop ==
    \/ MainAddTool
    \/ MainGetSchema
    \/ MainSetSystemPrompt
    \/ MainPrompt
    \/ MainStreamNext
    \/ MainStreamEnd
    \/ MainDispatch
    \/ MainFeedNext
    \/ MainFeedEnd
    \/ MainQuit

SpecLoop == InitLoop /\ [][NextLoop]_allvars

\* ---------------------------------------------------------------------- C21

\* C21: when one of the two catalog queries fails, get_schema returns an
\* error, which carries no table and no reference, also when the column
\* query had succeeded and its rows were aggregated; and the foreign-key
\* query is made only after the column query succeeded.
C21_NoPartialSchema ==
    IsGetSchema =>
        LET catalog == fetched[1].catalog IN
        /\ (~catalog.columns.ok \/ ~catalog.fk_rows.ok) =>
               /\ ~returned[1].ok
               /\ DOMAIN returned[1] = {"ok", "error"}
               /\ returned[1].error \in {CouldNotGetColumns, CouldNotGetForeignKeyInfo}
        /\ ~catalog.columns.ok => fetched[1].issued = << "columns" >>
        /\ catalog.columns.ok => fetched[1].issued = << "columns", "foreign keys" >>
        /\ (catalog.columns.ok /\ catalog.fk_rows.ok) => returned[1].ok

C21_Witness ==
    /\ IsGetSchema
    /\ fetched[1].catalog.columns.ok
    /\ Len(fetched[1].catalog.columns.value) = 2
    /\ ~fetched[1].catalog.fk_rows.ok
    /\ returned[1] = [ok |-> FALSE, error |-> CouldNotGetForeignKeyInfo]

\* ---------------------------------------------------------------------- C22

\* C22 as stated: in the session loop every tool call a call of the LLM
\* returned (stream_completion, or add_tool_result when it continues the
\* conversation) is given to add_tool_result.  Tool calls are dispatched in
\* the for loop only, so that "in the end" is: when the for loop is over,
\* that is when main reads the next prompt or has ended, add_tool_result has
\* been invoked as many times as tool calls were returned.
C22_EveryToolCallAnswered ==
    session.at \in {"input", "quit"} => session.emitted = session.answered

\* ---------------------------------------------------------------------- C23

\* C23: the for loop invokes add_tool_result for the tool calls of the list
\* stream_completion returned, one by one in list order with the id of each,
\* once: at the k-th tool call the calls before it have been fed, and when
\* the for loop is over (main reads the next prompt, or has ended) every
\* tool call of the list has been fed, whatever its text and whether or not
\* an earlier add_tool_result returned Err.  The database was asked exactly
\* for the tool calls named "execute_query" whose arguments are JSON with a
\* string under "query", with that string, once each.
C23_EachCallFedOnceInOrder ==
    LET n == Len(session.fed)
        Asks(tool_call) ==
            /\ tool_call.name = "execute_query"
            /\ from_str(tool_call.arguments).ok
            /\ from_str(tool_call.arguments).val.kind = "Object"
            /\ MapGet(from_str(tool_call.arguments).val.members, Lit.query) # None
            /\ MapGet(from_str(tool_call.arguments).val.members, Lit.query)[1].kind = "String"
    IN
    /\ n <= Len(session.list)
    /\ \A i \in 1..n : session.fed[i].id = session.list[i].id
    /\ session.at = "dispatch" => n = session.k - 1
    /\ session.at = "feeding" => n = session.k
    /\ session.at \in {"input", "quit"} => n = Len(session.list)
    /\ \A i \in 1..n :
          Asks(session.list[i]) <=> \E q \in DOMAIN session.queries : session.queries[q].k = i
    /\ \A q \in DOMAIN session.queries :
          /\ session.queries[q].k \in 1..n
          /\ Some(JString(session.queries[q].query))
                 = MapGet(from_str(session.list[session.queries[q].k].arguments).val.members,
                          Lit.query)
          /\ \A r \in DOMAIN session.queries : q < r => session.queries[q].k < session.queries[r].k

\* The for loop is over for a list of two tool calls, a query and an unknown
\* tool; add_tool_result returned Err for the first.
C23_Witness ==
    /\ session.at = "input"
    /\ Len(session.list) = 2
    /\ session.list[1].name = "execute_query"
    /\ session.list[2].name = "other_tool"
    /\ session.fed[1].failed
    /\ ~session.fed[2].failed
    /\ Len(session.queries) = 1
    /\ session.fed[2].res = Lit.unknown_tool \o Lit.other_tool

\* ---------------------------------------------------------------------- C24

\* C24: an Assistant turn is never first and comes right after a User or Tool
\* turn; and the Assistant turn of the latest call that returned Ok comes
\* right after the request turn which that call pushed onto the history it
\* met (a User turn for stream_completion, a Tool turn for add_tool_result).
C24_AssistantFollowsRequestTurn ==
    /\ \A i \in DOMAIN history :
          history[i].role = Assistant =>
              i >= 2 /\ history[i - 1].role \in {User, Tool}
    /\ ReturnedOk =>
          /\ AssistantIndex = Len(call.before) + 2
          /\ SubSeq(history, 1, Len(call.before)) = call.before
          /\ history[AssistantIndex].role = Assistant
          /\ history[AssistantIndex - 1].role
                 = (IF call.op = "stream_completion" THEN User ELSE Tool)

C24_Witness ==
    /\ Len(history) = 4
    /\ [i \in 1..4 |-> history[i].role] = << User, Assistant, Tool, Assistant >>
    /\ history[1].content = <<>>
    /\ nErr = 0

\* ---------------------------------------------------------------------- C25

\* C25: a step that changes the registry (add_tool, set_tools) leaves the
\* history as it is; a step that changes the history (set_system_prompt,
\* stream_completion, add_tool_result, returning Ok or Err) leaves the
\* registry as it is; and set_system_prompt puts one System turn after the
\* turns there are, which stay as they are.
C25_HistoryAndRegistryIndependent ==
    [][/\ toolLog' # toolLog => history' = history
       /\ history' # history => tools' = tools /\ toolLog' = toolLog
       /\ (nOk' # nOk \/ nErr' # nErr \/ pc' # pc \/ pulled' # pulled) => tools' = tools
       /\ nSys' # nSys =>
             /\ tools' = tools
             /\ Len(history') = Len(history) + 1
             /\ SubSeq(history', 1, Len(history)) = history
             /\ history'[Len(history')].role = System]_vars

C25_Witness ==
    /\ nSys = 1
    /\ Len(history) = 3
    /\ [i \in 1..3 |-> history[i].role] = << User, Assistant, System >>
    /\ Len(tools) = 1
    /\ Len(toolLog) = 1

\* ---------------------------------------------------------------------- C26

\* C26: once main has set the system prompt, the history has one System
\* turn, the first, every turn after it is a User, Assistant or Tool turn,
\* and the registry, like the tools of every request made, is the one tool
\* execute_query.
C26_OneSystemTurnFirst ==
    session.at \in {"input", "streaming", "dispatch", "feeding", "quit"} =>
        /\ nSys = 1
        /\ Len(history) >= 1
        /\ history[1].role = System
        /\ \A i \in 2..Len(history) : history[i].role \in {User, Assistant, Tool}
        /\ tools = << query_tool >>
        /\ request # None =>
              /\ request[1].tools = << query_tool >>
              /\ request[1].messages[1].role = System
              /\ \A i \in 2..Len(request[1].messages) :
                    request[1].messages[i].role \in {User, Assistant, Tool}

\* Two prompts were answered, the second with a tool call that was fed.
C26_Witness ==
    /\ session.at = "input"
    /\ Len(history) = 7
    /\ [i \in 1..7 |-> history[i].role]
           = << System, User, Assistant, User, Assistant, Tool, Assistant >>
    /\ request # None
    /\ Len(request[1].messages) = 6

====
